---- MODULE Spec2Model ----
(***************************************************************************)
(* Lifting diary: the ownership-scoped workout data layer.                 *)
(*                                                                         *)
(*   - the entity store (tables workouts, workout_exercises, sets and the  *)
(*     exercise catalog of src/db/schema.ts),                              *)
(*   - the query helpers getWorkoutsForDate, getWorkout, getWorkouts of    *)
(*     src/data/workouts.ts,                                               *)
(*   - the server actions createWorkoutAction and updateWorkoutAction and  *)
(*     the data helpers createWorkout and updateWorkout they call.         *)
(*                                                                         *)
(* A table is a sequence of rows in physical (heap) order.  SQL leaves the *)
(* order of rows with equal sort keys unspecified; a query returns them in *)
(* heap order, and every write may place its row anywhere in the heap, so  *)
(* every tie order the database can produce is a reachable one, while two  *)
(* reads of an unchanged table agree.                                      *)
(*                                                                         *)
(* Time is counted in clock ticks (milliseconds) of the server's local     *)
(* time zone, tick 0 being a local midnight.                               *)
(***************************************************************************)
EXTENDS Integers, Sequences, FiniteSets, TLC

VARIABLES
    workouts,           \* table workouts: sequence of rows, heap order
    workoutExercises,   \* table workout_exercises
    sets,               \* table sets
    exercises,          \* table exercises (the catalog)
    identity,           \* the tables' identity sequences (last value handed out)
    resp,               \* the last operation: its name, caller, arguments, outcome
    createdBy,          \* history: workout id -> the user whose action created it
    lastCommitted,      \* history: the last mutation that committed and its row
    calls               \* the runs of updateWorkoutAction that are in flight

vars == <<workouts, workoutExercises, sets, exercises, identity, resp, createdBy,
          lastCommitted, calls>>

store == <<workouts, workoutExercises, sets, exercises, identity>>

----------------------------------------------------------------------------
(* Bounds of the model *)

MaxWorkouts == 2            \* workouts ever created
MaxWorkoutExercises == 2    \* workout_exercises rows ever inserted
MaxSets == 2                \* sets rows ever inserted
MaxCalls == 2               \* runs of updateWorkoutAction in flight at a time
TicksPerDay == 3            \* length of a calendar day in clock ticks

Users == {"u1", "u2"}
Anonymous == "anonymous"    \* auth() resolved without a userId
Callers == Users \cup {Anonymous}

\* The instants the model's inputs carry: the last tick of a day (23:59:59.999),
\* the first tick of the following day (00:00:00.000) and the tick after it.
Times == {TicksPerDay - 1, TicksPerDay, TicksPerDay + 1}
WorkoutIds == 1 .. MaxWorkouts

----------------------------------------------------------------------------
(* JavaScript values that cross the action boundary, SQL values in rows *)

Undefined == [tag |-> "undefined"]
Null == [tag |-> "null"]
Str(s) == [tag |-> "string", val |-> s]
Num(n) == [tag |-> "number", val |-> n]
DateOf(t) == [tag |-> "date", ms |-> t]

\* The ISO-8601 text of the instant t, as Date.prototype.toISOString writes it.
IsoTexts == [t \in 0 .. 2 * TicksPerDay |-> "T" \o ToString(t) \o "Z"]
IsoString(t) == IsoTexts[t]

RECURSIVE Repeat(_, _)
Repeat(s, n) ==
    IF n = 0 THEN ""
    ELSE IF n % 2 = 0 THEN Repeat(s \o s, n \div 2)
    ELSE s \o Repeat(s, n - 1)


MaxNotesLen == 1000         \* z.string().max(1000)
LongNotes == Repeat("x", MaxNotesLen + 1)

\* z.string().datetime(): the value is a string holding an ISO-8601 instant.
zDatetime(v) == v.tag = "string" /\ \E t \in DOMAIN IsoTexts : IsoTexts[t] = v.val

\* new Date(text) for a text that zDatetime accepted.
NewDate(text) == DateOf(CHOOSE t \in DOMAIN IsoTexts : IsoTexts[t] = text)

\* z.string().max(1000)
zNotes(v) == v.tag = "string" /\ Len(v.val) <= MaxNotesLen

\* z.number().int().positive()
zPositiveInt(v) == v.tag = "number" /\ v.val > 0

\* JavaScript truthiness of an optional string: undefined, null and "" are falsy.
Truthy(v) == v.tag = "string" /\ v.val # ""

----------------------------------------------------------------------------
(* The database: heaps, ordering, relations *)

\* The rows of a table that satisfy a WHERE clause, in heap order.
Where(table, Cond(_)) == SelectSeq(table, Cond)

\* The set of rows of a table.
Rows(table) == {table[i] : i \in DOMAIN table}

\* A row written into the heap at position pos (1 .. Len + 1; a position past
\* the end is the end).
HeapPut(table, row, pos) ==
    LET at == IF pos > Len(table) THEN Len(table) + 1 ELSE pos
    IN  SubSeq(table, 1, at - 1) \o <<row>> \o SubSeq(table, at, Len(table))

\* The heap without the rows that satisfy Cond.
HeapRemove(table, Cond(_)) == SelectSeq(table, LAMBDA r : ~Cond(r))

\* ORDER BY Key ASC over rows that arrive in heap order: rows with equal keys
\* keep their heap order.  The row at position i of the input r comes out at
\* the position that counts the rows before it in that order, itself included.
OrderByAsc(rows, Key(_)) ==
    CHOOSE sorted \in
        {[k \in DOMAIN r |->
            r[CHOOSE i \in DOMAIN r :
                Cardinality({j \in DOMAIN r :
                                \/ Key(r[j]) < Key(r[i])
                                \/ Key(r[j]) = Key(r[i]) /\ j <= i}) = k]] :
         r \in {rows}} : TRUE

\* ORDER BY Key DESC.
OrderByDesc(rows, Key(_)) == OrderByAsc(rows, LAMBDA r : 0 - Key(r))

\* Mutant: the limit is not passed on to the query.
Limit_ignored(rows, limit) == rows

\* LIMIT n; a limit that is undefined is no limit.
Limit(rows, limit) ==
    IF limit = Undefined THEN rows
    ELSE SubSeq(rows, 1, IF limit.val < Len(rows) THEN limit.val ELSE Len(rows))

\* with: { sets: { orderBy: asc(sets.setNumber) } }
WithSets(we) ==
    OrderByAsc(Where(sets, LAMBDA s : s.workoutExerciseId = we.id),
               LAMBDA s : s.setNumber)

\* with: { exercise: true }: the catalog row the workout exercise references.
WithExercise(we) == CHOOSE e \in Rows(exercises) : e.id = we.exerciseId

\* Mutant: the exercises come without orderBy, in heap order.
WithWorkoutExercises_heapOrder(w) ==
    LET own == Where(workoutExercises, LAMBDA we : we.workoutId = w.id)
    IN  [i \in DOMAIN own |->
            [id |-> own[i].id, workoutId |-> own[i].workoutId,
             exerciseId |-> own[i].exerciseId, order |-> own[i].order,
             exercise |-> WithExercise(own[i]), sets |-> WithSets(own[i])]]

\* with: { workoutExercises: { orderBy: asc(order), with: { exercise, sets } } }
WithWorkoutExercises(w) ==
    LET own == OrderByAsc(Where(workoutExercises, LAMBDA we : we.workoutId = w.id),
                          LAMBDA we : we.order)
    IN  [i \in DOMAIN own |->
            [id |-> own[i].id, workoutId |-> own[i].workoutId,
             exerciseId |-> own[i].exerciseId, order |-> own[i].order,
             exercise |-> WithExercise(own[i]), sets |-> WithSets(own[i])]]

\* One workout row with its relations loaded.
WorkoutTree(w) ==
    [id |-> w.id, userId |-> w.userId, startedAt |-> w.startedAt,
     completedAt |-> w.completedAt, duration |-> w.duration, notes |-> w.notes,
     workoutExercises |-> WithWorkoutExercises(w)]

\* The rows r of a result, each with its relations loaded.
LoadTrees(rows) ==
    CHOOSE trees \in {[i \in DOMAIN r |-> WorkoutTree(r[i])] : r \in {rows}} : TRUE

----------------------------------------------------------------------------
(* src/data/workouts.ts: the query helpers *)

\* startOfDay.setHours(0, 0, 0, 0)
StartOfDay(date) == date - (date % TicksPerDay)

\* endOfDay.setHours(23, 59, 59, 999)
EndOfDay(date) == StartOfDay(date) + (TicksPerDay - 1)

\* Mutant: the range is closed at the following midnight.
getWorkoutsForDate_closedRange(userId, date) ==
    LoadTrees(OrderByDesc(
        Where(workouts, LAMBDA w : /\ w.userId = userId
                                   /\ w.startedAt.ms >= StartOfDay(date)
                                   /\ w.startedAt.ms <= StartOfDay(date) + TicksPerDay),
        LAMBDA w : w.startedAt.ms))

\* Mutant: the query leaves out the condition on the owner.
getWorkoutsForDate_anyOwner(userId, date) ==
    LoadTrees(OrderByDesc(
        Where(workouts, LAMBDA w : /\ w.startedAt.ms >= StartOfDay(date)
                                   /\ w.startedAt.ms < EndOfDay(date)),
        LAMBDA w : w.startedAt.ms))

getWorkoutsForDate(userId, date) ==
    LoadTrees(OrderByDesc(
        Where(workouts, LAMBDA w : /\ w.userId = userId
                                   /\ w.startedAt.ms >= StartOfDay(date)
                                   /\ w.startedAt.ms < EndOfDay(date)),
        LAMBDA w : w.startedAt.ms))

\* Mutant: a workout of another user is answered with an error of its own.
getWorkout_forbidden(workoutId, userId) ==
    LET found == Where(workouts, LAMBDA w : w.id = workoutId)
    IN  IF found = <<>> THEN Undefined
        ELSE IF found[1].userId = userId THEN WorkoutTree(found[1])
        ELSE Str("Forbidden")

\* Mutant: the lookup matches on the id alone.
getWorkout_anyOwner(workoutId, userId) ==
    LET found == Where(workouts, LAMBDA w : w.id = workoutId)
    IN  IF found = <<>> THEN Undefined ELSE WorkoutTree(found[1])

\* findFirst: the first matching row, undefined when there is none.
getWorkout(workoutId, userId) ==
    LET found == Where(workouts, LAMBDA w : w.id = workoutId /\ w.userId = userId)
    IN  IF found = <<>> THEN Undefined ELSE WorkoutTree(found[1])

\* Mutant: no orderBy, the rows come in heap order.
getWorkouts_heapOrder(userId, limit) ==
    LoadTrees(Limit(Where(workouts, LAMBDA w : w.userId = userId), limit))

getWorkouts(userId, limit) ==
    LoadTrees(Limit(OrderByDesc(Where(workouts, LAMBDA w : w.userId = userId),
                                LAMBDA w : w.startedAt.ms),
                    limit))

----------------------------------------------------------------------------
(* The data helpers createWorkout and updateWorkout (docs/data-mutations.md) *)

\* Mutant: the insert leaves out the notes column.
createWorkout_withoutNotes(userId, data) ==
    [id |-> identity.workouts + 1, userId |-> userId, startedAt |-> data.startedAt,
     completedAt |-> Null, duration |-> Null, notes |-> Null]

\* db.insert(workouts).values({ ...data, userId }).returning(): the inserted row.
\* The id comes from the identity sequence; columns not given take their defaults.
\* The audit columns created_at and updated_at hold the wall clock of the write;
\* no operation reads them and the rows of the model do not carry them.
createWorkout(userId, data) ==
    [id |-> identity.workouts + 1,
     userId |-> userId,
     startedAt |-> data.startedAt,
     completedAt |-> Null,
     duration |-> Null,
     notes |-> IF data.notes = Undefined THEN Null ELSE data.notes]

\* Mutant: the WHERE clause of the update matches on the owner alone.
OwnedBy_ownerOnly(w, workoutId, userId) == w.userId = userId

\* Mutant: the WHERE clause of the update matches on the id alone.
OwnedBy_idOnly(w, workoutId, userId) == w.id = workoutId

\* .where(and(eq(workouts.id, workoutId), eq(workouts.userId, userId)))
OwnedBy(w, workoutId, userId) == w.id = workoutId /\ w.userId = userId

\* .set({ ...data, updatedAt: new Date() }): keys that are undefined are not written
\* (updated_at is an audit column, see createWorkout).
\* Mutant: the SET clause writes every column, NULL where the input has none.
SetColumns_everyColumn(w, data) ==
    [w EXCEPT
        !.startedAt = IF data.startedAt = Undefined THEN @ ELSE data.startedAt,
        !.completedAt = IF data.completedAt = Undefined THEN Null ELSE data.completedAt,
        !.duration = IF data.duration = Undefined THEN Null ELSE data.duration,
        !.notes = IF data.notes = Undefined THEN Null ELSE data.notes]

SetColumns(w, data) ==
    [w EXCEPT
        !.startedAt = IF data.startedAt = Undefined THEN @ ELSE data.startedAt,
        !.completedAt = IF data.completedAt = Undefined THEN @ ELSE data.completedAt,
        !.duration = IF data.duration = Undefined THEN @ ELSE data.duration,
        !.notes = IF data.notes = Undefined THEN @ ELSE data.notes]

\* Mutant: the statement matches on the id alone and writes the caller into
\* user_id with the data: .set({ ...data, userId }).where(eq(workouts.id, id)).
updateWorkout_takesOver(workoutId, userId, data) ==
    LET matched == Where(workouts, LAMBDA w : w.id = workoutId)
    IN  [i \in DOMAIN matched |->
            [SetColumns(matched[i], data) EXCEPT !.userId = userId]]

\* db.update(workouts).set(...).where(...).returning(): the rows as updated.
updateWorkout(workoutId, userId, data) ==
    LET matched == Where(workouts, LAMBDA w : OwnedBy(w, workoutId, userId))
    IN  [i \in DOMAIN matched |-> SetColumns(matched[i], data)]

\* The table after the UPDATE: the rows it matched are replaced by their new
\* versions, which the database places at heap position pos.
RECURSIVE PutAll(_, _, _)
PutAll(table, rows, pos) ==
    IF rows = <<>> THEN table
    ELSE PutAll(HeapPut(table, rows[1], pos), SubSeq(rows, 2, Len(rows)), pos)

\* Mutant: the UPDATE returns the new row versions but its write is lost.
WorkoutsAfterUpdate_lost(workoutId, userId, data, pos) == workouts

WorkoutsAfterUpdate(workoutId, userId, data, pos) ==
    LET updated == updateWorkout(workoutId, userId, data)
        ids == {updated[i].id : i \in DOMAIN updated}
    IN  PutAll(HeapRemove(workouts, LAMBDA w : w.id \in ids), updated, pos)

----------------------------------------------------------------------------
(* Outcomes of an operation *)

Ok(op, userId, args, value, paths) ==
    [op |-> op, userId |-> userId, args |-> args, status |-> "ok",
     value |-> value, revalidated |-> paths]

Thrown(op, userId, args, error) ==
    [op |-> op, userId |-> userId, args |-> args, status |-> "error",
     value |-> Str(error), revalidated |-> {}]

\* revalidatePath("/dashboard/workout/" + id)
WorkoutPath(id) == "/dashboard/workout/" \o ToString(id)

----------------------------------------------------------------------------
(* app/dashboard/workout/new/actions.ts *)

\* Mutant: the schema has no rule for notes.
createWorkoutSchema_startedAtOnly(input) == zDatetime(input.startedAt)

\* createWorkoutSchema.parse(input) does not throw.
createWorkoutSchema(input) ==
    /\ zDatetime(input.startedAt)
    /\ input.notes = Undefined \/ zNotes(input.notes)

\* What one call of the action does to the store, and its outcome.
createWorkoutActionCall(caller, input) ==
    /\ UNCHANGED <<workoutExercises, sets, exercises>>
    /\ IF caller = Anonymous
       THEN /\ resp' = Thrown("createWorkoutAction", caller, input, "Unauthorized")
            /\ UNCHANGED <<workouts, identity, createdBy, lastCommitted>>
       ELSE IF ~createWorkoutSchema(input)
       THEN /\ resp' = Thrown("createWorkoutAction", caller, input, "ZodError")
            /\ UNCHANGED <<workouts, identity, createdBy, lastCommitted>>
       ELSE LET workout == createWorkout(caller,
                               [startedAt |-> NewDate(input.startedAt.val),
                                notes |-> input.notes])
            IN  /\ identity.workouts < MaxWorkouts
                /\ \E pos \in 1 .. Len(workouts) + 1 :
                        workouts' = HeapPut(workouts, workout, pos)
                /\ identity' = [identity EXCEPT !.workouts = workout.id]
                /\ createdBy' = createdBy @@ (workout.id :> caller)
                /\ lastCommitted' = [op |-> "createWorkoutAction", workout |-> workout]
                /\ resp' = Ok("createWorkoutAction", caller, input, workout,
                              {"/dashboard"})

\* The action called on its own, from start to end.
createWorkoutAction(caller, input) ==
    createWorkoutActionCall(caller, input) /\ UNCHANGED calls

----------------------------------------------------------------------------
(* app/dashboard/workout/[workoutId]/actions.ts *)

\* Mutant: the schema takes any number as a duration.
updateWorkoutSchema_anyDuration(input) ==
    /\ zPositiveInt(input.id)
    /\ input.startedAt = Undefined \/ zDatetime(input.startedAt)
    /\ input.completedAt \in {Undefined, Null} \/ zDatetime(input.completedAt)
    /\ input.duration \in {Undefined, Null} \/ input.duration.tag = "number"
    /\ input.notes \in {Undefined, Null} \/ zNotes(input.notes)

\* updateWorkoutSchema.parse(input) does not throw.
updateWorkoutSchema(input) ==
    /\ zPositiveInt(input.id)
    /\ input.startedAt = Undefined \/ zDatetime(input.startedAt)
    /\ input.completedAt \in {Undefined, Null} \/ zDatetime(input.completedAt)
    /\ input.duration \in {Undefined, Null} \/ zPositiveInt(input.duration)
    /\ input.notes \in {Undefined, Null} \/ zNotes(input.notes)

\* Mutant: a null is passed on to the helper, which writes it.
UpdateData_nullWritten(data) ==
    [startedAt |-> IF Truthy(data.startedAt)
                   THEN NewDate(data.startedAt.val) ELSE Undefined,
     completedAt |-> IF Truthy(data.completedAt) THEN NewDate(data.completedAt.val)
                     ELSE IF data.completedAt = Null THEN Null ELSE Undefined,
     duration |-> data.duration,
     notes |-> data.notes]

\* "Convert string dates to Date objects and filter out null values"
UpdateData(data) ==
    [startedAt |-> IF Truthy(data.startedAt)
                   THEN NewDate(data.startedAt.val) ELSE Undefined,
     completedAt |-> IF Truthy(data.completedAt)
                     THEN NewDate(data.completedAt.val) ELSE Undefined,
     duration |-> IF data.duration # Null /\ data.duration # Undefined
                  THEN data.duration ELSE Undefined,
     notes |-> IF data.notes # Null /\ data.notes # Undefined
               THEN data.notes ELSE Undefined]

\* Mutant: an update that succeeds also starts the workout's log afresh: it
\* deletes the sets.
updateWorkoutAction_resetSets(caller, input) ==
    /\ UNCHANGED <<workoutExercises, exercises, identity, createdBy, calls>>
    /\ IF caller = Anonymous
       THEN /\ resp' = Thrown("updateWorkoutAction", caller, input, "Unauthorized")
            /\ UNCHANGED <<workouts, sets, lastCommitted>>
       ELSE IF ~updateWorkoutSchema(input)
       THEN /\ resp' = Thrown("updateWorkoutAction", caller, input, "ZodError")
            /\ UNCHANGED <<workouts, sets, lastCommitted>>
       ELSE LET id == input.id.val
                updated == updateWorkout(id, caller, UpdateData(input))
            IN  /\ \E pos \in 1 .. (IF updated = <<>> THEN 1 ELSE Len(workouts)) :
                        workouts' = WorkoutsAfterUpdate(id, caller, UpdateData(input), pos)
                /\ IF updated = <<>>
                   THEN /\ resp' = Thrown("updateWorkoutAction", caller, input,
                            "Workout not found or you don't have permission to update it")
                        /\ UNCHANGED <<sets, lastCommitted>>
                   ELSE /\ resp' = Ok("updateWorkoutAction", caller, input, updated[1],
                                      {"/dashboard", WorkoutPath(id)})
                        /\ sets' = <<>>
                        /\ lastCommitted' = [op |-> "updateWorkoutAction",
                                             workout |-> updated[1]]

\* What one call of the action does to the store, and its outcome.
updateWorkoutActionCall(caller, input) ==
    /\ UNCHANGED <<workoutExercises, sets, exercises, identity, createdBy>>
    /\ IF caller = Anonymous
       THEN /\ resp' = Thrown("updateWorkoutAction", caller, input, "Unauthorized")
            /\ UNCHANGED <<workouts, lastCommitted>>
       ELSE IF ~updateWorkoutSchema(input)
       THEN /\ resp' = Thrown("updateWorkoutAction", caller, input, "ZodError")
            /\ UNCHANGED <<workouts, lastCommitted>>
       ELSE LET id == input.id.val
                updated == updateWorkout(id, caller, UpdateData(input))
            IN  /\ \E pos \in 1 .. (IF updated = <<>> THEN 1 ELSE Len(workouts)) :
                        workouts' = WorkoutsAfterUpdate(id, caller, UpdateData(input), pos)
                /\ IF updated = <<>>
                   THEN /\ resp' = Thrown("updateWorkoutAction", caller, input,
                            "Workout not found or you don't have permission to update it")
                        /\ UNCHANGED lastCommitted
                   ELSE /\ resp' = Ok("updateWorkoutAction", caller, input, updated[1],
                                      {"/dashboard", WorkoutPath(id)})
                        /\ lastCommitted' = [op |-> "updateWorkoutAction",
                                             workout |-> updated[1]]

\* The action called on its own, from start to end.
updateWorkoutAction(caller, input) ==
    updateWorkoutActionCall(caller, input) /\ UNCHANGED calls

----------------------------------------------------------------------------
(* updateWorkoutAction run by run: several runs are in flight, and each run   *)
(* yields the processor where the code awaits the database                    *)

Slots == 1 .. MaxCalls

Idle == [pc |-> "idle"]

\* Lines 19-44: the session, the parse of the input, the conversion to
\* updateData.  A run that throws here ends here; the others go on to await
\* updateWorkout.  Nothing of the store is read.
UpdateBegin(slot, caller, input) ==
    /\ calls[slot] = Idle
    /\ UNCHANGED <<store, createdBy, lastCommitted>>
    /\ IF caller = Anonymous
       THEN /\ resp' = Thrown("updateWorkoutAction", caller, input, "Unauthorized")
            /\ UNCHANGED calls
       ELSE IF ~updateWorkoutSchema(input)
       THEN /\ resp' = Thrown("updateWorkoutAction", caller, input, "ZodError")
            /\ UNCHANGED calls
       ELSE /\ calls' = [calls EXCEPT ![slot] =
                            [pc |-> "awaitUpdate", caller |-> caller, input |-> input,
                             id |-> input.id.val, data |-> UpdateData(input),
                             seen |-> Undefined]]
            /\ UNCHANGED resp

\* The runs that have come back from the database and not yet finished.
Returned == {slot \in Slots : calls[slot].pc = "returned"}

\* The runs once the database has executed the statement of the run in slot,
\* which replaced the rows before by the rows updated.  after and latest are
\* history that orders the writes: the runs in flight whose statement was
\* executed earlier, and whether no statement has written the workout since.
CallsAfterWrite(slot, before, updated) ==
    [s \in Slots |->
        IF s = slot
        THEN [pc |-> "returned", caller |-> calls[slot].caller,
              input |-> calls[slot].input, id |-> calls[slot].id,
              data |-> calls[slot].data, seen |-> Undefined,
              before |-> before, updated |-> updated,
              after |-> Returned, latest |-> TRUE]
        ELSE IF calls[s].pc = "returned" /\ calls[s].id = calls[slot].id
                /\ updated # <<>>
        THEN [calls[s] EXCEPT !.latest = FALSE]
        ELSE calls[s]]

\* Mutant: the helper first reads the workout to check its owner and then
\* updates by id.
UpdateWrite_checkThenWrite(slot) ==
    LET call == calls[slot]
    IN  /\ call.pc = "awaitUpdate"
        /\ UNCHANGED <<workoutExercises, sets, exercises, identity, createdBy, resp>>
        /\ IF call.seen = Undefined
           THEN /\ calls' = [calls EXCEPT ![slot].seen =
                                Where(workouts,
                                      LAMBDA w : OwnedBy(w, call.id, call.caller))]
                /\ UNCHANGED <<workouts, lastCommitted>>
           ELSE LET old == Where(workouts, LAMBDA w : w.id = call.id)
                    updated == IF call.seen = <<>> THEN <<>>
                               ELSE [i \in DOMAIN old |-> SetColumns(old[i], call.data)]
                IN  /\ workouts' = IF updated = <<>> THEN workouts
                                   ELSE PutAll(HeapRemove(workouts,
                                                   LAMBDA w : w.id = call.id),
                                               updated, 1)
                    /\ calls' = CallsAfterWrite(slot, old, updated)
                    /\ UNCHANGED lastCommitted

\* Mutant: a run whose workout another run in flight has already written is
\* turned away (a version conflict).
UpdateWrite_conflict(slot) ==
    LET call == calls[slot]
        before == Where(workouts, LAMBDA w : OwnedBy(w, call.id, call.caller))
        busy == \E other \in Slots \ {slot} :
                    calls[other].pc = "returned" /\ calls[other].id = call.id
        updated == IF busy THEN <<>>
                   ELSE updateWorkout(call.id, call.caller, call.data)
    IN  /\ call.pc = "awaitUpdate"
        /\ UNCHANGED <<workoutExercises, sets, exercises, identity, createdBy, resp>>
        /\ workouts' = IF busy THEN workouts
                       ELSE WorkoutsAfterUpdate(call.id, call.caller, call.data, 1)
        /\ calls' = CallsAfterWrite(slot, before, updated)
        /\ UNCHANGED lastCommitted

\* Line 46: the database executes the UPDATE of updateWorkout, one statement
\* that matches on id and owner and writes the rows it matched.
UpdateWrite(slot) ==
    LET call == calls[slot]
        before == Where(workouts, LAMBDA w : OwnedBy(w, call.id, call.caller))
        updated == updateWorkout(call.id, call.caller, call.data)
    IN  /\ call.pc = "awaitUpdate"
        /\ UNCHANGED <<workoutExercises, sets, exercises, identity, createdBy, resp>>
        /\ \E pos \in 1 .. (IF updated = <<>> THEN 1 ELSE Len(workouts)) :
                workouts' = WorkoutsAfterUpdate(call.id, call.caller, call.data, pos)
        /\ calls' = CallsAfterWrite(slot, before, updated)
        /\ lastCommitted' = IF updated = <<>> THEN lastCommitted
                            ELSE [op |-> "updateWorkoutAction", workout |-> updated[1]]

\* Lines 48-55: the run goes on with what updateWorkout returned: it throws, or
\* revalidates the two paths and returns the workout.
UpdateFinish(slot) ==
    LET call == calls[slot]
    IN  /\ call.pc = "returned"
        /\ UNCHANGED <<store, createdBy, lastCommitted>>
        /\ calls' = [s \in Slots |->
                        IF s = slot THEN Idle
                        ELSE IF calls[s].pc = "returned"
                        THEN [calls[s] EXCEPT !.after = @ \ {slot}]
                        ELSE calls[s]]
        /\ resp' = IF call.updated = <<>>
                   THEN Thrown("updateWorkoutAction", call.caller, call.input,
                            "Workout not found or you don't have permission to update it")
                   ELSE Ok("updateWorkoutAction", call.caller, call.input,
                           call.updated[1], {"/dashboard", WorkoutPath(call.id)})

----------------------------------------------------------------------------
(* Both server actions statement by statement.  A run keeps, as history, the  *)
(* log of the statements it has executed: auth, parse, helper, revalidate.    *)

ServerActions == {"createWorkoutAction", "updateWorkoutAction"}

\* The schema of the action parses the input.
Parses(action, input) ==
    IF action = "createWorkoutAction" THEN createWorkoutSchema(input)
    ELSE updateWorkoutSchema(input)

\* The client calls the server action: a run starts.
ActionBegin(slot, action, caller, input) ==
    /\ calls[slot] = Idle
    /\ calls' = [calls EXCEPT ![slot] =
                    [pc |-> "auth", action |-> action, caller |-> caller,
                     input |-> input, log |-> <<>>, workout |-> Undefined,
                     error |-> Undefined, revalidated |-> {}]]
    /\ UNCHANGED <<store, resp, createdBy, lastCommitted>>

\* Mutant: the run goes on without a session.
ActionAuth_noCheck(slot) ==
    /\ calls[slot].pc = "auth"
    /\ calls' = [calls EXCEPT ![slot].log = Append(@, "auth"), ![slot].pc = "parse"]
    /\ UNCHANGED <<store, resp, createdBy, lastCommitted>>

\* const { userId } = await auth(); if (!userId) throw new Error("Unauthorized");
ActionAuth(slot) ==
    /\ calls[slot].pc = "auth"
    /\ calls' = IF calls[slot].caller = Anonymous
                THEN [calls EXCEPT ![slot].log = Append(@, "auth"),
                                   ![slot].pc = "thrown",
                                   ![slot].error = Str("Unauthorized")]
                ELSE [calls EXCEPT ![slot].log = Append(@, "auth"),
                                   ![slot].pc = "parse"]
    /\ UNCHANGED <<store, resp, createdBy, lastCommitted>>

\* const validated = schema.parse(input): throws a ZodError on invalid input.
ActionParse(slot) ==
    /\ calls[slot].pc = "parse"
    /\ calls' = IF Parses(calls[slot].action, calls[slot].input)
                THEN [calls EXCEPT ![slot].log = Append(@, "parse"),
                                   ![slot].pc = "helper"]
                ELSE [calls EXCEPT ![slot].log = Append(@, "parse"),
                                   ![slot].pc = "thrown",
                                   ![slot].error = Str("ZodError")]
    /\ UNCHANGED <<store, resp, createdBy, lastCommitted>>

\* const workout = await createWorkout(userId, {...}): the insert, then on to
\* revalidatePath.
ActionHelperCreate(slot) ==
    LET call == calls[slot]
        workout == createWorkout(call.caller,
                        [startedAt |-> NewDate(call.input.startedAt.val),
                         notes |-> call.input.notes])
    IN  /\ call.pc = "helper" /\ call.action = "createWorkoutAction"
        /\ identity.workouts < MaxWorkouts
        /\ \E pos \in 1 .. Len(workouts) + 1 :
                workouts' = HeapPut(workouts, workout, pos)
        /\ identity' = [identity EXCEPT !.workouts = workout.id]
        /\ createdBy' = createdBy @@ (workout.id :> call.caller)
        /\ lastCommitted' = [op |-> "createWorkoutAction", workout |-> workout]
        /\ calls' = [calls EXCEPT ![slot].log = Append(@, "helper"),
                                  ![slot].pc = "revalidate",
                                  ![slot].workout = workout]
        /\ UNCHANGED <<workoutExercises, sets, exercises, resp>>

\* const workout = await updateWorkout(id, userId, updateData); if (!workout)
\* throw new Error("Workout not found ...").
ActionHelperUpdate(slot) ==
    LET call == calls[slot]
        id == call.input.id.val
        updated == updateWorkout(id, call.caller, UpdateData(call.input))
    IN  /\ call.pc = "helper" /\ call.action = "updateWorkoutAction"
        /\ \E pos \in 1 .. (IF updated = <<>> THEN 1 ELSE Len(workouts)) :
                workouts' = WorkoutsAfterUpdate(id, call.caller,
                                                UpdateData(call.input), pos)
        /\ lastCommitted' = IF updated = <<>> THEN lastCommitted
                            ELSE [op |-> "updateWorkoutAction", workout |-> updated[1]]
        /\ calls' = IF updated = <<>>
                    THEN [calls EXCEPT
                            ![slot].log = Append(@, "helper"),
                            ![slot].pc = "thrown",
                            ![slot].error =
                                Str("Workout not found or you don't have permission to update it")]
                    ELSE [calls EXCEPT ![slot].log = Append(@, "helper"),
                                       ![slot].pc = "revalidate",
                                       ![slot].workout = updated[1]]
        /\ UNCHANGED <<workoutExercises, sets, exercises, identity, createdBy, resp>>

\* revalidatePath("/dashboard"), and for an update
\* revalidatePath(`/dashboard/workout/${id}`).
ActionRevalidate(slot) ==
    LET call == calls[slot]
    IN  /\ call.pc = "revalidate"
        /\ calls' = [calls EXCEPT
                        ![slot].log = Append(@, "revalidate"),
                        ![slot].pc = "return",
                        ![slot].revalidated =
                            IF call.action = "createWorkoutAction" THEN {"/dashboard"}
                            ELSE {"/dashboard", WorkoutPath(call.input.id.val)}]
        /\ UNCHANGED <<store, resp, createdBy, lastCommitted>>

\* The run settles: return { success: true, workout }, or the error thrown.
\* The outcome carries the run's log.
ActionSettle(slot) ==
    LET call == calls[slot]
    IN  /\ call.pc \in {"return", "thrown"}
        /\ calls' = [calls EXCEPT ![slot] = Idle]
        /\ resp' = [log |-> call.log]
                    @@ (IF call.pc = "return"
                        THEN Ok(call.action, call.caller, call.input, call.workout,
                                call.revalidated)
                        ELSE [Thrown(call.action, call.caller, call.input, call.error.val)
                                EXCEPT !.revalidated = call.revalidated])
        /\ UNCHANGED <<store, createdBy, lastCommitted>>

----------------------------------------------------------------------------
(* app/dashboard/workout/new/workout-form.tsx and                             *)
(* app/dashboard/workout/[workoutId]/edit-workout-form.tsx: onSubmit.  A form *)
(* on screen occupies a slot; the record keeps its isPending state, the       *)
(* position of onSubmit and, as history, what the submission caught and the   *)
(* routes it pushed.                                                          *)

Forms == {"WorkoutForm", "EditWorkoutForm"}

\* The value of a datetime-local input for the instant t of local time.
LocalTexts == [t \in 0 .. 2 * TicksPerDay |-> "L" \o ToString(t)]

\* new Date(text).getTime(): the instant the text denotes, NaN for any other
\* text.
NaN == -1
DateParse(text) ==
    IF \E t \in DOMAIN LocalTexts : LocalTexts[t] = text
    THEN CHOOSE t \in DOMAIN LocalTexts : LocalTexts[t] = text
    ELSE NaN

\* The argument onSubmit builds for the server action.  WorkoutForm sends
\* notes: values.notes || undefined, EditWorkoutForm the workout's id and
\* notes: values.notes || null.
FormInput(form, workoutId, values) ==
    LET startedAt == Str(IsoString(DateParse(values.startedAt)))
    IN  IF form = "WorkoutForm"
        THEN [startedAt |-> startedAt,
              notes |-> IF values.notes = "" THEN Undefined ELSE Str(values.notes)]
        ELSE [id |-> Num(workoutId), startedAt |-> startedAt,
              completedAt |-> Undefined, duration |-> Undefined,
              notes |-> IF values.notes = "" THEN Null ELSE Str(values.notes)]

\* The submissions of WorkoutForm that have not yet come back from the action.
CreatesInFlight ==
    {slot \in Slots : /\ calls[slot].pc \in {"try", "awaitAction"}
                      /\ calls[slot].form = "WorkoutForm"}

\* form.handleSubmit(onSubmit) calls onSubmit with the values:
\* setIsPending(true).  The edit form is on screen for a stored workout.
FormSubmit(slot, form, caller, workoutId, values) ==
    /\ calls[slot].pc \in {"idle", "settled"}
    /\ IF form = "WorkoutForm"
       THEN identity.workouts + Cardinality(CreatesInFlight) < MaxWorkouts
       ELSE \E w \in Rows(workouts) : w.id = workoutId
    /\ calls' = [calls EXCEPT ![slot] =
                    [pc |-> "try", form |-> form, caller |-> caller,
                     workoutId |-> workoutId, values |-> values,
                     isPending |-> TRUE, input |-> Undefined, result |-> Undefined,
                     caught |-> Undefined, pushed |-> {}]]
    /\ UNCHANGED <<store, resp, createdBy, lastCommitted>>

\* try { ... new Date(values.startedAt).toISOString() ...: toISOString throws a
\* RangeError for an invalid date, which the catch takes; otherwise the action
\* is called and onSubmit awaits it.
FormCall(slot) ==
    LET call == calls[slot]
    IN  /\ call.pc = "try"
        /\ calls' = IF DateParse(call.values.startedAt) = NaN
                    THEN [calls EXCEPT ![slot].pc = "finally",
                                       ![slot].caught = Str("RangeError")]
                    ELSE [calls EXCEPT
                            ![slot].pc = "awaitAction",
                            ![slot].input = FormInput(call.form, call.workoutId,
                                                      call.values)]
        /\ UNCHANGED <<store, resp, createdBy, lastCommitted>>

\* The server action runs and settles: result is what it returned or threw.
FormAction(slot) ==
    LET call == calls[slot]
    IN  /\ call.pc = "awaitAction"
        /\ IF call.form = "WorkoutForm"
           THEN createWorkoutActionCall(call.caller, call.input)
           ELSE updateWorkoutActionCall(call.caller, call.input)
        /\ calls' = [calls EXCEPT ![slot].pc = "resumed", ![slot].result = resp']

\* onSubmit resumes: if (result.success) router.push("/dashboard"), or the
\* catch takes what the action threw.
FormResume(slot) ==
    LET call == calls[slot]
    IN  /\ call.pc = "resumed"
        /\ calls' = IF call.result.status = "ok"
                    THEN [calls EXCEPT ![slot].pc = "finally",
                                       ![slot].pushed = {"/dashboard"}]
                    ELSE [calls EXCEPT ![slot].pc = "finally",
                                       ![slot].caught = call.result.value]
        /\ UNCHANGED <<store, resp, createdBy, lastCommitted>>

\* Mutant: setIsPending(false) is the last statement of the try block instead
\* of a finally block: a submission that caught an error never gets there.
FormFinally_inTry(slot) ==
    /\ calls[slot].pc = "finally"
    /\ calls[slot].caught = Undefined
    /\ calls' = [calls EXCEPT ![slot].pc = "settled", ![slot].isPending = FALSE]
    /\ UNCHANGED <<store, resp, createdBy, lastCommitted>>

\* finally { setIsPending(false); }
FormFinally(slot) ==
    /\ calls[slot].pc = "finally"
    /\ calls' = [calls EXCEPT ![slot].pc = "settled", ![slot].isPending = FALSE]
    /\ UNCHANGED <<store, resp, createdBy, lastCommitted>>

----------------------------------------------------------------------------
(* The entity store's inserts of workout_exercises and sets rows (db/schema.ts) *)

EntityStore == "entity store"   \* the caller of an operation no user action issues

\* INSERT INTO workout_exercises: workout_id and exercise_id are foreign keys.
InsertWorkoutExercise(workoutId, exerciseId, order) ==
    LET args == [workoutId |-> workoutId, exerciseId |-> exerciseId, order |-> order]
        row == [id |-> identity.workoutExercises + 1, workoutId |-> workoutId,
                exerciseId |-> exerciseId, order |-> order]
    IN  /\ UNCHANGED <<workouts, sets, exercises, createdBy, lastCommitted, calls>>
        /\ IF /\ \E w \in Rows(workouts) : w.id = workoutId
              /\ \E e \in Rows(exercises) : e.id = exerciseId
           THEN /\ identity.workoutExercises < MaxWorkoutExercises
                /\ \E pos \in 1 .. Len(workoutExercises) + 1 :
                        workoutExercises' = HeapPut(workoutExercises, row, pos)
                /\ identity' = [identity EXCEPT !.workoutExercises = row.id]
                /\ resp' = Ok("insertWorkoutExercise", EntityStore, args, row, {})
           ELSE /\ resp' = Thrown("insertWorkoutExercise", EntityStore, args,
                                  "foreign key violation")
                /\ UNCHANGED <<workoutExercises, identity>>

\* INSERT INTO sets: workout_exercise_id is a foreign key.
InsertSet(workoutExerciseId, setNumber, reps, weight, isWarmup) ==
    LET args == [workoutExerciseId |-> workoutExerciseId, setNumber |-> setNumber]
        row == [id |-> identity.sets + 1, workoutExerciseId |-> workoutExerciseId,
                setNumber |-> setNumber, reps |-> reps, weight |-> weight,
                isWarmup |-> isWarmup]
    IN  /\ UNCHANGED <<workouts, workoutExercises, exercises, createdBy, lastCommitted, calls>>
        /\ IF \E we \in Rows(workoutExercises) : we.id = workoutExerciseId
           THEN /\ identity.sets < MaxSets
                /\ \E pos \in 1 .. Len(sets) + 1 : sets' = HeapPut(sets, row, pos)
                /\ identity' = [identity EXCEPT !.sets = row.id]
                /\ resp' = Ok("insertSet", EntityStore, args, row, {})
           ELSE /\ resp' = Thrown("insertSet", EntityStore, args,
                                  "foreign key violation")
                /\ UNCHANGED <<sets, identity>>

\* Mutant: the foreign keys of workout_exercises and sets do not cascade; the
\* rows under the deleted workout stay.
DeleteWorkout_noCascade(workoutId) ==
    LET args == [workoutId |-> workoutId]
        deleted == Where(workouts, LAMBDA w : w.id = workoutId)
    IN  /\ UNCHANGED <<workoutExercises, sets, exercises, identity, createdBy,
                       lastCommitted, calls>>
        /\ workouts' = HeapRemove(workouts, LAMBDA w : w.id = workoutId)
        /\ resp' = Ok("deleteWorkout", EntityStore, args, deleted, {})

\* DELETE FROM workouts WHERE id = workoutId.  workout_exercises.workout_id and
\* sets.workout_exercise_id are declared onDelete: 'cascade': the rows under
\* the workout go with it.  The statement returns the rows it deleted.
DeleteWorkout(workoutId) ==
    LET args == [workoutId |-> workoutId]
        deleted == Where(workouts, LAMBDA w : w.id = workoutId)
        under == {we.id : we \in {r \in Rows(workoutExercises) :
                                        r.workoutId = workoutId}}
    IN  /\ UNCHANGED <<exercises, identity, createdBy, lastCommitted, calls>>
        /\ workouts' = HeapRemove(workouts, LAMBDA w : w.id = workoutId)
        /\ workoutExercises' = IF deleted = <<>> THEN workoutExercises
                               ELSE HeapRemove(workoutExercises,
                                               LAMBDA we : we.workoutId = workoutId)
        /\ sets' = IF deleted = <<>> THEN sets
                   ELSE HeapRemove(sets, LAMBDA s : s.workoutExerciseId \in under)
        /\ resp' = Ok("deleteWorkout", EntityStore, args, deleted, {})

\* DELETE FROM exercises WHERE id = exerciseId.  workout_exercises.exercise_id
\* is declared onDelete: 'restrict': the statement fails while a row
\* references the exercise.
DeleteExercise(exerciseId) ==
    LET args == [exerciseId |-> exerciseId]
        deleted == Where(exercises, LAMBDA e : e.id = exerciseId)
    IN  /\ UNCHANGED <<workouts, workoutExercises, sets, identity, createdBy,
                       lastCommitted, calls>>
        /\ IF \E we \in Rows(workoutExercises) : we.exerciseId = exerciseId
           THEN /\ resp' = Thrown("deleteExercise", EntityStore, args,
                                  "foreign key violation")
                /\ UNCHANGED exercises
           ELSE /\ exercises' = HeapRemove(exercises, LAMBDA e : e.id = exerciseId)
                /\ resp' = Ok("deleteExercise", EntityStore, args, deleted, {})

----------------------------------------------------------------------------
(* Calls of the query helpers *)

GetWorkoutsForDate(userId, date) ==
    /\ resp' = Ok("getWorkoutsForDate", userId, [date |-> date],
                  getWorkoutsForDate(userId, date), {})
    /\ UNCHANGED <<store, createdBy, lastCommitted, calls>>

\* Mutant: the lookup also marks the workout as viewed, a write that moves the
\* row to the end of the heap.
GetWorkout_touch(workoutId, userId) ==
    /\ resp' = Ok("getWorkout", userId, [workoutId |-> workoutId],
                  getWorkout(workoutId, userId), {})
    /\ workouts' = HeapRemove(workouts, LAMBDA w : OwnedBy(w, workoutId, userId))
                        \o Where(workouts, LAMBDA w : OwnedBy(w, workoutId, userId))
    /\ UNCHANGED <<workoutExercises, sets, exercises, identity, createdBy, lastCommitted, calls>>

GetWorkout(workoutId, userId) ==
    /\ resp' = Ok("getWorkout", userId, [workoutId |-> workoutId],
                  getWorkout(workoutId, userId), {})
    /\ UNCHANGED <<store, createdBy, lastCommitted, calls>>

GetWorkouts(userId, limit) ==
    /\ resp' = Ok("getWorkouts", userId, [limit |-> limit],
                  getWorkouts(userId, limit), {})
    /\ UNCHANGED <<store, createdBy, lastCommitted, calls>>

\* Mutant: the helper wraps its query in try/catch and answers a failure with
\* the empty result: no rows, or no workout.
QueryFails_caught(op, userId, args) ==
    /\ resp' = Ok(op, userId, args,
                  IF op = "getWorkout" THEN Undefined ELSE <<>>, {})
    /\ UNCHANGED <<store, createdBy, lastCommitted, calls>>

\* The database fails while the query of the helper op runs: the promise of
\* `await db.query.workouts.findMany/findFirst(...)` rejects, and the helper,
\* which has no try/catch around it, rejects with the same error.
QueryFails(op, userId, args) ==
    /\ resp' = Thrown(op, userId, args, "storage failure")
    /\ UNCHANGED <<store, createdBy, lastCommitted, calls>>

----------------------------------------------------------------------------
(* src/components/dashboard/workout-list.tsx: the workout list.  What React   *)
(* renders of a paragraph is the sequence of its children: texts and numbers; *)
(* false, null and undefined render nothing.                                  *)

\* workout.workoutExercises.length
totalExercises(workout) == Len(workout.workoutExercises)

\* Mutant: the reduce counts the working sets only.
RECURSIVE reduce_workingOnly(_, _)
reduce_workingOnly(wes, n) ==
    IF n = 0 THEN 0
    ELSE reduce_workingOnly(wes, n - 1)
            + Len(SelectSeq(wes[n].sets, LAMBDA set : ~set.isWarmup))

totalSets_workingOnly(workout) ==
    reduce_workingOnly(workout.workoutExercises, Len(workout.workoutExercises))

\* workoutExercises.reduce((acc, we) => acc + we.sets.length, 0), over the
\* first n elements.
RECURSIVE reduce(_, _)
reduce(wes, n) ==
    IF n = 0 THEN 0 ELSE reduce(wes, n - 1) + Len(wes[n].sets)

totalSets(workout) ==
    reduce(workout.workoutExercises, Len(workout.workoutExercises))

\* workoutExercise.sets.filter((set) => !set.isWarmup)
workingSets(workoutExercise) ==
    SelectSeq(workoutExercise.sets, LAMBDA set : ~set.isWarmup)

\* `s` after a count other than one.
Plural(n) == IF n # 1 THEN "s" ELSE ""

\* workingSets.map((set) => set.reps).join(", "): the reps with the separator
\* between them, as one text.
RECURSIVE Join(_, _)
Join(working, n) ==
    IF n = 0 THEN ""
    ELSE IF n = 1 THEN ToString(working[1].reps)
    ELSE Join(working, n - 1) \o ", " \o ToString(working[n].reps)

\* {workingSets[0]?.weight && (<> @ {workingSets[0].weight} lbs</>)}: a weight
\* that is falsy (0) is itself what && yields, and React renders the number.
WeightPart(working) ==
    IF working[1].weight # 0
    THEN <<Str(" @ "), Num(working[1].weight), Str(" lbs")>>
    ELSE <<Num(0)>>

\* Mutant: the rep part is rendered whether or not there is a working set;
\* workingSets[0]?.weight of an empty array is undefined and renders nothing.
ExerciseLine_always(workoutExercise) ==
    LET working == workingSets(workoutExercise)
        length == Len(workoutExercise.sets)
    IN  [key |-> workoutExercise.id,
         name |-> workoutExercise.exercise.name,
         text |-> <<Num(length), Str(" set"), Str(Plural(length))>>
                    \o <<Str(" x "), Str(Join(working, Len(working))), Str(" reps")>>
                    \o (IF Len(working) > 0 THEN WeightPart(working) ELSE <<>>)]

\* The row of one exercise: its name and the paragraph
\* `{sets.length} set{s} [x {reps} reps [@ {weight} lbs]]`.  The model writes
\* the multiplication sign as x and the bullet of the card as *.
ExerciseLine(workoutExercise) ==
    LET working == workingSets(workoutExercise)
        length == Len(workoutExercise.sets)
    IN  [key |-> workoutExercise.id,
         name |-> workoutExercise.exercise.name,
         text |-> <<Num(length), Str(" set"), Str(Plural(length))>>
                    \o (IF Len(working) > 0
                        THEN <<Str(" x "), Str(Join(working, Len(working))),
                               Str(" reps")>> \o WeightPart(working)
                        ELSE <<>>)]

\* The card of one workout: its title, the counts with their texts, the notes
\* when there are any, and one row for each exercise.
WorkoutCard(workout) ==
    [key |-> workout.id,
     title |-> IF workout.completedAt # Null THEN "Workout"
               ELSE "Workout (In Progress)",
     totalExercises |-> totalExercises(workout),
     totalSets |-> totalSets(workout),
     text |-> <<Str(" * "), Num(totalExercises(workout)), Str(" exercise"),
                Str(Plural(totalExercises(workout))),
                Str(" * "), Num(totalSets(workout)), Str(" set"),
                Str(Plural(totalSets(workout)))>>,
     notes |-> IF Truthy(workout.notes) THEN <<workout.notes>>
               ELSE <<>>,
     lines |-> [j \in DOMAIN workout.workoutExercises |->
                    ExerciseLine(workout.workoutExercises[j])]]

\* The cards of the workouts handed to the list, in their order.
Cards(loaded) ==
    CHOOSE cards \in {[i \in DOMAIN w |-> WorkoutCard(w[i])] : w \in {loaded}} : TRUE

\* The list rendered for the workouts of the day of selectedDate that the
\* query helper returns for userId.
WorkoutList(userId, selectedDate) ==
    /\ resp' = Ok("WorkoutList", userId, [date |-> selectedDate],
                  Cards(getWorkoutsForDate(userId, selectedDate)), {})
    /\ UNCHANGED <<store, createdBy, lastCommitted, calls>>

----------------------------------------------------------------------------
(* The specification *)

\* The catalog as seeded: one predefined exercise, shared by all users.
SeededExercises == <<[id |-> 1, userId |-> Null, name |-> "Squat"]>>

Init ==
    /\ workouts = <<>>
    /\ workoutExercises = <<>>
    /\ sets = <<>>
    /\ exercises = SeededExercises
    /\ identity = [workouts |-> 0, workoutExercises |-> 0, sets |-> 0]
    /\ resp = [op |-> "none", userId |-> EntityStore, args |-> <<>>,
               status |-> "ok", value |-> Undefined, revalidated |-> {}]
    /\ createdBy = <<>>
    /\ lastCommitted = [op |-> "none", workout |-> Undefined]
    /\ calls = [slot \in Slots |-> Idle]

\* Inputs of createWorkoutAction: every instant with and without notes, and one
\* input for each way validation fails.
CreateInputs ==
    {[startedAt |-> Str(IsoString(t)), notes |-> Undefined] : t \in Times}
    \cup {[startedAt |-> Str("yesterday"), notes |-> Undefined],
          [startedAt |-> Undefined, notes |-> Undefined],
          [startedAt |-> Str(IsoString(TicksPerDay)), notes |-> Str(LongNotes)]}

NoChange ==
    [startedAt |-> Undefined, completedAt |-> Undefined, duration |-> Undefined,
     notes |-> Undefined]

\* Inputs of updateWorkoutAction for the workout id: a new start, the edit form's
\* empty notes (null), and a duration that validation rejects.
UpdateInputs ==
    [id \in WorkoutIds |->
        {[NoChange EXCEPT !.startedAt = Str(IsoString(t))] @@ [id |-> Num(id)] :
            t \in Times}
        \cup {[NoChange EXCEPT !.notes = Null] @@ [id |-> Num(id)],
              [NoChange EXCEPT !.duration = Num(0)] @@ [id |-> Num(id)]}]

Limits == {Undefined, Num(1)}

\* What a caller without a session sends: one input of each action.
AnonymousCreateInput == [startedAt |-> Str(IsoString(TicksPerDay)), notes |-> Undefined]
AnonymousUpdateInput == [NoChange EXCEPT !.notes = Null] @@ [id |-> Num(1)]

Next ==
    \/ \E caller \in Users, input \in CreateInputs :
            createWorkoutAction(caller, input)
    \/ createWorkoutAction(Anonymous, AnonymousCreateInput)
    \/ \E caller \in Users, id \in WorkoutIds :
            \E input \in UpdateInputs[id] : updateWorkoutAction(caller, input)
    \/ updateWorkoutAction(Anonymous, AnonymousUpdateInput)
    \/ \E userId \in Users, date \in Times : GetWorkoutsForDate(userId, date)
    \/ \E userId \in Users, workoutId \in WorkoutIds : GetWorkout(workoutId, userId)
    \/ \E userId \in Users, limit \in Limits : GetWorkouts(userId, limit)

Spec == Init /\ [][Next]_vars

----------------------------------------------------------------------------
(* The specification of the nested tree: workouts with exercises and sets *)

Orders == {1, 2}        \* caller-supplied workout_exercises.order values
SetNumbers == {1, 2}    \* caller-supplied sets.set_number values

TreeCreateInputs == {[startedAt |-> Str(IsoString(TicksPerDay)), notes |-> Undefined]}

\* In this specification one user logs workouts; both users query.
TreeNext ==
    \/ \E input \in TreeCreateInputs : createWorkoutAction("u1", input)
    \/ \E workoutId \in WorkoutIds, order \in Orders :
            InsertWorkoutExercise(workoutId, 1, order)
    \/ \E workoutExerciseId \in 1 .. MaxWorkoutExercises, setNumber \in SetNumbers :
            InsertSet(workoutExerciseId, setNumber, 5, 100, FALSE)
    \/ \E userId \in Users : GetWorkoutsForDate(userId, TicksPerDay)
    \/ \E userId \in Users, workoutId \in WorkoutIds : GetWorkout(workoutId, userId)
    \/ \E userId \in Users : GetWorkouts(userId, Undefined)

SpecTree == Init /\ [][TreeNext]_vars

----------------------------------------------------------------------------
(* The specification of workout creation: every kind of input, by every kind  *)
(* of caller, next to inserts of exercises into the workouts that exist       *)

Notes == {Undefined, Str("leg day")}

CreateInputsWithNotes ==
    {[startedAt |-> Str(IsoString(t)), notes |-> n] : t \in Times, n \in Notes}
    \cup {[startedAt |-> Str("yesterday"), notes |-> Undefined],
          [startedAt |-> Undefined, notes |-> Str("leg day")],
          [startedAt |-> Str(IsoString(TicksPerDay)), notes |-> Str(LongNotes)]}

CreateNext ==
    \/ \E caller \in Callers, input \in CreateInputsWithNotes :
            createWorkoutAction(caller, input)
    \/ \E workoutId \in WorkoutIds : InsertWorkoutExercise(workoutId, 1, 1)
    \/ \E userId \in Users, workoutId \in WorkoutIds : GetWorkout(workoutId, userId)

SpecCreate == Init /\ [][CreateNext]_vars

----------------------------------------------------------------------------
(* The specification of workout editing: one user logs workouts and edits     *)
(* them with every kind of input; another user tries to edit them too         *)

EditCreateInput == [startedAt |-> Str(IsoString(TicksPerDay)), notes |-> Undefined]

\* Valid inputs of updateWorkoutAction for the workout id: no field, each field
\* alone with a value or with null, what the edit form sends when the notes
\* are empty (a start and notes = null), start and completion together.
EditInputs ==
    [id \in WorkoutIds |->
        {NoChange @@ [id |-> Num(id)],
         [NoChange EXCEPT !.notes = Str("felt strong")] @@ [id |-> Num(id)],
         [NoChange EXCEPT !.notes = Null] @@ [id |-> Num(id)],
         [NoChange EXCEPT !.startedAt = Str(IsoString(TicksPerDay + 1))]
            @@ [id |-> Num(id)],
         [NoChange EXCEPT !.completedAt = Str(IsoString(TicksPerDay - 1))]
            @@ [id |-> Num(id)],
         [NoChange EXCEPT !.completedAt = Null] @@ [id |-> Num(id)],
         [NoChange EXCEPT !.duration = Num(60)] @@ [id |-> Num(id)],
         [NoChange EXCEPT !.duration = Null] @@ [id |-> Num(id)],
         [NoChange EXCEPT !.startedAt = Str(IsoString(TicksPerDay + 1)),
                          !.notes = Null] @@ [id |-> Num(id)],
         [NoChange EXCEPT !.startedAt = Str(IsoString(TicksPerDay + 1)),
                          !.completedAt = Str(IsoString(TicksPerDay))]
            @@ [id |-> Num(id)]}]

\* One input for each way validation fails.
InvalidEditInputs ==
    {[NoChange EXCEPT !.duration = Num(0)] @@ [id |-> Num(1)],
     [NoChange EXCEPT !.duration = Num(-60)] @@ [id |-> Num(1)],
     [NoChange EXCEPT !.startedAt = Null] @@ [id |-> Num(1)],
     [NoChange EXCEPT !.notes = Str(LongNotes)] @@ [id |-> Num(1)],
     [NoChange EXCEPT !.startedAt = Str("yesterday")] @@ [id |-> Num(1)],
     [NoChange EXCEPT !.completedAt = Str("yesterday")] @@ [id |-> Num(1)]}

\* What the other user sends for the workout id.
IntruderInputs ==
    [id \in WorkoutIds |->
        {[NoChange EXCEPT !.notes = Str("felt strong")] @@ [id |-> Num(id)],
         [NoChange EXCEPT !.completedAt = Str(IsoString(TicksPerDay - 1))]
            @@ [id |-> Num(id)]}]

EditNext ==
    \/ createWorkoutAction("u1", EditCreateInput)
    \/ \E id \in WorkoutIds :
            \E input \in EditInputs[id] : updateWorkoutAction("u1", input)
    \/ \E input \in InvalidEditInputs : updateWorkoutAction("u1", input)
    \/ \E id \in WorkoutIds :
            \E input \in IntruderInputs[id] : updateWorkoutAction("u2", input)

SpecEdit == Init /\ [][EditNext]_vars

----------------------------------------------------------------------------
(* The specification of concurrent editing: one workout, runs of              *)
(* updateWorkoutAction of its owner and of another user in flight together    *)

\* What the owner's runs send: two different starts, one of them with notes,
\* and a duration.
OwnerRunInputs ==
    {[NoChange EXCEPT !.startedAt = Str(IsoString(TicksPerDay + 1))] @@ [id |-> Num(1)],
     [NoChange EXCEPT !.startedAt = Str(IsoString(TicksPerDay - 1)),
                      !.notes = Str("felt strong")] @@ [id |-> Num(1)],
     [NoChange EXCEPT !.duration = Num(60)] @@ [id |-> Num(1)],
     [NoChange EXCEPT !.duration = Num(0)] @@ [id |-> Num(1)]}

\* What the other user's runs send.
OtherRunInputs ==
    {[NoChange EXCEPT !.startedAt = Str(IsoString(TicksPerDay + 1))] @@ [id |-> Num(1)]}

ConcurrentNext ==
    \/ workouts = <<>> /\ createWorkoutAction("u1", EditCreateInput)
    \/ \E slot \in Slots, input \in OwnerRunInputs : UpdateBegin(slot, "u1", input)
    \/ \E slot \in Slots, input \in OtherRunInputs : UpdateBegin(slot, "u2", input)
    \/ \E slot \in Slots : UpdateBegin(slot, Anonymous, AnonymousUpdateInput)
    \/ \E slot \in Slots : UpdateWrite(slot)
    \/ \E slot \in Slots : UpdateFinish(slot)

SpecConcurrent == Init /\ [][ConcurrentNext]_vars

----------------------------------------------------------------------------
(* The specification of the workout list: one user logs a workout, exercises  *)
(* and sets of every kind, warmup or working; the list is rendered for both   *)
(* users                                                                      *)

Reps == {5, 8}          \* sets.reps values
Weights == {0, 100}     \* sets.weight values

ListNext ==
    \/ workouts = <<>> /\ createWorkoutAction("u1", EditCreateInput)
    \/ \E workoutId \in WorkoutIds, order \in Orders :
            InsertWorkoutExercise(workoutId, 1, order)
    \/ \E workoutExerciseId \in 1 .. MaxWorkoutExercises, setNumber \in SetNumbers,
          reps \in Reps, weight \in Weights, isWarmup \in BOOLEAN :
            InsertSet(workoutExerciseId, setNumber, reps, weight, isWarmup)
    \/ \E userId \in Users : WorkoutList(userId, TicksPerDay)

SpecList == Init /\ [][ListNext]_vars

----------------------------------------------------------------------------
(* The specification of the end-to-end scenario: the users log workouts in    *)
(* the morning of a day, exercises are added to them, and the workouts of     *)
(* every instant of that day are queried and listed for both users            *)

MorningOfDay == TicksPerDay + 1                     \* 08:30 of the day
DayInstants == TicksPerDay .. 2 * TicksPerDay - 1   \* 00:00:00.000 .. 23:59:59.999
MorningInput == [startedAt |-> Str(IsoString(MorningOfDay)), notes |-> Undefined]

EndToEndNext ==
    \/ \E caller \in Users : createWorkoutAction(caller, MorningInput)
    \/ \E workoutId \in WorkoutIds : InsertWorkoutExercise(workoutId, 1, 1)
    \/ \E workoutExerciseId \in 1 .. MaxWorkoutExercises :
            InsertSet(workoutExerciseId, 1, 5, 100, FALSE)
    \/ \E userId \in Users, date \in DayInstants : GetWorkoutsForDate(userId, date)
    \/ \E userId \in Users, date \in DayInstants : WorkoutList(userId, date)

SpecEndToEnd == Init /\ [][EndToEndNext]_vars

----------------------------------------------------------------------------
(* The specification of deletion: workouts with exercises and sets are        *)
(* logged, workouts are deleted, and exercises of the catalog are deleted or  *)
(* the attempt is made                                                        *)

ExerciseIds == {1, 2}   \* 1 is the seeded exercise; 2 is in no catalog

DeleteNext ==
    \/ createWorkoutAction("u1", EditCreateInput)
    \/ \E workoutId \in WorkoutIds, exerciseId \in ExerciseIds :
            InsertWorkoutExercise(workoutId, exerciseId, 1)
    \/ \E workoutExerciseId \in 1 .. MaxWorkoutExercises :
            InsertSet(workoutExerciseId, 1, 5, 100, FALSE)
    \/ \E workoutId \in WorkoutIds : DeleteWorkout(workoutId)
    \/ \E exerciseId \in ExerciseIds : DeleteExercise(exerciseId)
    \/ \E workoutId \in WorkoutIds : GetWorkout(workoutId, "u1")

SpecDelete == Init /\ [][DeleteNext]_vars

----------------------------------------------------------------------------
(* The specification of the mutations next to the nested rows: workouts get   *)
(* exercises and sets, and every kind of caller creates and updates workouts  *)
(* with inputs that succeed, fail validation or find no workout               *)

FrameCreateInputs ==
    {EditCreateInput, [startedAt |-> Str("yesterday"), notes |-> Undefined]}

FrameUpdateInputs ==
    [id \in WorkoutIds |->
        {[NoChange EXCEPT !.notes = Str("felt strong")] @@ [id |-> Num(id)],
         [NoChange EXCEPT !.duration = Num(0)] @@ [id |-> Num(id)]}]

FrameNext ==
    \/ \E caller \in {"u1", Anonymous}, input \in FrameCreateInputs :
            createWorkoutAction(caller, input)
    \/ \E workoutId \in WorkoutIds : InsertWorkoutExercise(workoutId, 1, 1)
    \/ \E workoutExerciseId \in 1 .. MaxWorkoutExercises :
            InsertSet(workoutExerciseId, 1, 5, 100, FALSE)
    \/ \E caller \in Callers, id \in WorkoutIds :
            \E input \in FrameUpdateInputs[id] : updateWorkoutAction(caller, input)

SpecFrame == Init /\ [][FrameNext]_vars

----------------------------------------------------------------------------
(* The specification of the queries over a database that may fail: users log  *)
(* workouts, and every query either runs or fails with the database           *)

StorageNext ==
    \/ \E caller \in Users, t \in Times :
            createWorkoutAction(caller, [startedAt |-> Str(IsoString(t)),
                                         notes |-> Undefined])
    \/ \E userId \in Users, date \in Times : GetWorkoutsForDate(userId, date)
    \/ \E userId \in Users, workoutId \in WorkoutIds : GetWorkout(workoutId, userId)
    \/ \E userId \in Users, limit \in Limits : GetWorkouts(userId, limit)
    \/ \E userId \in Users, date \in Times :
            QueryFails("getWorkoutsForDate", userId, [date |-> date])
    \/ \E userId \in Users, workoutId \in WorkoutIds :
            QueryFails("getWorkout", userId, [workoutId |-> workoutId])
    \/ \E userId \in Users, limit \in Limits :
            QueryFails("getWorkouts", userId, [limit |-> limit])

SpecStorage == Init /\ [][StorageNext]_vars

----------------------------------------------------------------------------
(* The specification of the server actions statement by statement: runs of    *)
(* both actions, by a user and by a caller without a session, with inputs     *)
(* that succeed, fail validation or find no workout, interleave               *)

StepCreateInputs ==
    {EditCreateInput, [startedAt |-> Str("yesterday"), notes |-> Undefined]}

\* An update of workout 1, an input validation rejects, an update of a workout
\* that is never created.
StepUpdateInputs ==
    {[NoChange EXCEPT !.notes = Str("felt strong")] @@ [id |-> Num(1)],
     [NoChange EXCEPT !.duration = Num(0)] @@ [id |-> Num(1)],
     [NoChange EXCEPT !.notes = Str("felt strong")] @@ [id |-> Num(MaxWorkouts + 1)]}

StepsNext ==
    \/ \E slot \in Slots, caller \in {"u1", Anonymous}, input \in StepCreateInputs :
            ActionBegin(slot, "createWorkoutAction", caller, input)
    \/ \E slot \in Slots, caller \in {"u1", Anonymous}, input \in StepUpdateInputs :
            ActionBegin(slot, "updateWorkoutAction", caller, input)
    \/ \E slot \in Slots : ActionAuth(slot)
    \/ \E slot \in Slots : ActionParse(slot)
    \/ \E slot \in Slots : ActionHelperCreate(slot)
    \/ \E slot \in Slots : ActionHelperUpdate(slot)
    \/ \E slot \in Slots : ActionRevalidate(slot)
    \/ \E slot \in Slots : ActionSettle(slot)

SpecSteps == Init /\ [][StepsNext]_vars

----------------------------------------------------------------------------
(* The specification of ownership: both users log workouts and update every   *)
(* workout, their own and the other's, also with inputs that carry a userId   *)
(* key, which z.object strips                                                 *)

OwnerUpdateInputs ==
    [id \in WorkoutIds |->
        {[NoChange EXCEPT !.notes = Str("felt strong")] @@ [id |-> Num(id)]}
        \cup {[NoChange EXCEPT !.startedAt = Str(IsoString(TicksPerDay + 1))]
                @@ [id |-> Num(id), userId |-> Str(u)] : u \in Users}]

OwnerNext ==
    \/ \E caller \in Users : createWorkoutAction(caller, EditCreateInput)
    \/ \E caller \in Users, id \in WorkoutIds :
            \E input \in OwnerUpdateInputs[id] : updateWorkoutAction(caller, input)
    \/ \E userId \in Users, workoutId \in WorkoutIds : GetWorkout(workoutId, userId)

SpecOwner == Init /\ [][OwnerNext]_vars

----------------------------------------------------------------------------
(* The specification of the forms: the two forms are submitted, again and     *)
(* again, by a signed-in user and by a user whose session has ended, with a   *)
(* date that parses and one that does not.  A submission that has started     *)
(* goes on: the event loop runs onSubmit, the awaited action settles, and the *)
(* continuation of onSubmit runs.                                             *)

FormValues ==
    {[startedAt |-> LocalTexts[TicksPerDay], notes |-> ""],
     [startedAt |-> LocalTexts[TicksPerDay], notes |-> "leg day"],
     [startedAt |-> "+275760-09-14T00:00", notes |-> ""]}

FormNext ==
    \/ \E slot \in Slots, caller \in {"u1", Anonymous}, values \in FormValues :
            FormSubmit(slot, "WorkoutForm", caller, 0, values)
    \/ \E slot \in Slots, caller \in {"u1", Anonymous}, values \in FormValues :
            FormSubmit(slot, "EditWorkoutForm", caller, 1, values)
    \/ \E slot \in Slots : FormCall(slot)
    \/ \E slot \in Slots : FormAction(slot)
    \/ \E slot \in Slots : FormResume(slot)
    \/ \E slot \in Slots : FormFinally(slot)

SpecForm ==
    /\ Init /\ [][FormNext]_vars
    /\ \A slot \in Slots :
            /\ WF_vars(FormCall(slot))
            /\ WF_vars(FormAction(slot))
            /\ WF_vars(FormResume(slot))
            /\ WF_vars(FormFinally(slot))

----------------------------------------------------------------------------
(* Vocabulary of the properties *)

QueryOps == {"getWorkout", "getWorkoutsForDate", "getWorkouts"}

\* The columns of the workout at the root of a tree a query returned.
RowOf(tree) ==
    [id |-> tree.id, userId |-> tree.userId, startedAt |-> tree.startedAt,
     completedAt |-> tree.completedAt, duration |-> tree.duration,
     notes |-> tree.notes]

OwnedRows(userId) == {w \in Rows(workouts) : w.userId = userId}

\* The ids of the workouts in a list a query returned.
IdsIn(list) == {list[i].id : i \in DOMAIN list}

\* t lies in the calendar day of date: startOfDay(date) <= t < startOfDay(date + 1 day).
InDayOf(t, date) ==
    /\ StartOfDay(date) <= t
    /\ t < StartOfDay(date + TicksPerDay)

----------------------------------------------------------------------------
(* C1: getWorkout(W.id, U) returns the stored workout W to the user U who      *)
(* created it and the not-found result (undefined) to every other user, after *)
(* any sequence of create and update operations.                              *)
C1_GetWorkoutByOwnerOnly ==
    (resp.op = "getWorkout" /\ resp.args.workoutId \in DOMAIN createdBy) =>
        IF resp.userId = createdBy[resp.args.workoutId]
        THEN /\ resp.value # Undefined
             /\ RowOf(resp.value) \in Rows(workouts)
             /\ resp.value.id = resp.args.workoutId
        ELSE resp.value = Undefined

\* A user other than the creator asked for a workout that was updated before.
C1_Witness ==
    /\ resp.op = "getWorkout"
    /\ resp.args.workoutId \in DOMAIN createdBy
    /\ resp.userId # createdBy[resp.args.workoutId]
    /\ resp.value = Undefined
    /\ \E w \in Rows(workouts) :
            w.id = resp.args.workoutId /\ w.startedAt.ms # TicksPerDay

----------------------------------------------------------------------------
(* C2: cross-user non-interference.  A step whose caller is not U changes     *)
(* neither the rows U owns nor the result of any query U can issue: every     *)
(* getWorkout, getWorkoutsForDate and getWorkouts of U returns after the step *)
(* what it returned before it.                                                *)
SameView(userId) ==
    /\ \A id \in WorkoutIds : getWorkout(id, userId)' = getWorkout(id, userId)
    /\ \A date \in Times :
            getWorkoutsForDate(userId, date)' = getWorkoutsForDate(userId, date)
    /\ \A limit \in {Undefined, Num(1), Num(2)} :
            getWorkouts(userId, limit)' = getWorkouts(userId, limit)
    /\ OwnedRows(userId)' = OwnedRows(userId)

C2_NonInterference ==
    [][\A u \in Users : (resp'.userId \in Callers \ {u}) => SameView(u)]_vars

\* A user's update named a workout of another user and was turned away.
C2_Witness ==
    /\ resp.op = "updateWorkoutAction"
    /\ resp.userId \in Users
    /\ resp.status = "error"
    /\ \E w \in Rows(workouts) :
            /\ w.id = resp.args.id.val
            /\ w.userId # resp.userId
            /\ resp.args.startedAt # Undefined
            /\ resp.args.startedAt # Str(IsoString(w.startedAt.ms))

----------------------------------------------------------------------------
(* C3: getWorkoutsForDate(U, date) returns every workout owned by U whose     *)
(* startedAt t satisfies startOfDay(date) <= t < startOfDay(date + 1 day), at *)
(* millisecond resolution: none of them is missing from the result.           *)
C3_DateRangeComplete ==
    resp.op = "getWorkoutsForDate" =>
        \A w \in OwnedRows(resp.userId) :
            InDayOf(w.startedAt.ms, resp.args.date) => w.id \in IdsIn(resp.value)

----------------------------------------------------------------------------
(* C4: getWorkoutsForDate(U, date) returns only workouts owned by U whose     *)
(* startedAt lies in [startOfDay(date), startOfDay(date + 1 day)); a workout  *)
(* that starts at the following day's 00:00:00 is excluded and one that       *)
(* starts at exactly startOfDay(date) is included.                            *)
C4_DateRangeSound ==
    resp.op = "getWorkoutsForDate" =>
        /\ \A i \in DOMAIN resp.value :
                /\ RowOf(resp.value[i]) \in OwnedRows(resp.userId)
                /\ InDayOf(resp.value[i].startedAt.ms, resp.args.date)
        /\ \A w \in OwnedRows(resp.userId) :
                /\ w.startedAt.ms = StartOfDay(resp.args.date + TicksPerDay)
                        => w.id \notin IdsIn(resp.value)
                /\ w.startedAt.ms = StartOfDay(resp.args.date)
                        => w.id \in IdsIn(resp.value)

\* The user has a workout at the following midnight and one of another user
\* starts on the day asked for; the answer holds neither.
C4_Witness ==
    /\ resp.op = "getWorkoutsForDate"
    /\ resp.args.date = TicksPerDay - 1
    /\ resp.value = <<>>
    /\ \E w \in OwnedRows(resp.userId) : w.startedAt.ms = TicksPerDay
    /\ \E w \in Rows(workouts) :
            w.userId # resp.userId /\ w.startedAt.ms = TicksPerDay - 1

\* The user has workouts at 00:00:00.000 and later that day, and is given both.
C4_WitnessIncluded ==
    /\ resp.op = "getWorkoutsForDate"
    /\ resp.args.date = TicksPerDay + 1
    /\ Len(resp.value) = 2
    /\ \E i \in DOMAIN resp.value : resp.value[i].startedAt.ms = TicksPerDay

----------------------------------------------------------------------------
(* C5: the lists getWorkoutsForDate and getWorkouts return are ordered by     *)
(* startedAt descending: of two adjacent workouts the first has startedAt >=  *)
(* the second, whatever the order of the inserts and updates.                 *)
C5_StartedAtDescending ==
    resp.op \in {"getWorkoutsForDate", "getWorkouts"} =>
        \A i \in 1 .. Len(resp.value) - 1 :
            resp.value[i].startedAt.ms >= resp.value[i + 1].startedAt.ms

\* Two workouts with different starts come back latest first, although the
\* later one was created first and sits first in the heap.
C5_Witness ==
    /\ resp.op \in {"getWorkoutsForDate", "getWorkouts"}
    /\ Len(resp.value) = 2
    /\ resp.value[1].startedAt.ms > resp.value[2].startedAt.ms
    /\ resp.value[1].id < resp.value[2].id
    /\ workouts[2].id = resp.value[1].id

----------------------------------------------------------------------------
(* C6: in every workout tree a query returns, workoutExercises is sorted      *)
(* ascending by order and each exercise's sets are sorted ascending by        *)
(* setNumber, whatever the order in which the rows went into storage.         *)
TreeSorted(tree) ==
    /\ \A i \in 1 .. Len(tree.workoutExercises) - 1 :
            tree.workoutExercises[i].order <= tree.workoutExercises[i + 1].order
    /\ \A i \in DOMAIN tree.workoutExercises :
            LET we == tree.workoutExercises[i]
            IN  \A j \in 1 .. Len(we.sets) - 1 :
                    we.sets[j].setNumber <= we.sets[j + 1].setNumber

TreesOf(r) == IF r.op = "getWorkout"
              THEN (IF r.value = Undefined THEN <<>> ELSE <<r.value>>)
              ELSE r.value

C6_NestedOrdering ==
    resp.op \in QueryOps =>
        \A i \in DOMAIN TreesOf(resp) : TreeSorted(TreesOf(resp)[i])

\* A tree whose two exercises and two sets were inserted in the reverse of their
\* display order comes back in display order.
C6_Witness ==
    /\ resp.op \in QueryOps
    /\ \E i \in DOMAIN TreesOf(resp) :
          LET wes == TreesOf(resp)[i].workoutExercises
          IN  /\ Len(wes) = 2
              /\ wes[1].order < wes[2].order
              /\ wes[1].id > wes[2].id
              /\ \E k \in DOMAIN wes :
                    /\ Len(wes[k].sets) = 2
                    /\ wes[k].sets[1].setNumber < wes[k].sets[2].setNumber
                    /\ wes[k].sets[1].id > wes[k].sets[2].id

----------------------------------------------------------------------------
(* C7: getWorkouts(U, limit) returns exactly the workouts U owns when limit   *)
(* is omitted; with limit = n it returns min(n, number of U's workouts)       *)
(* workouts, the most recent ones: no owned workout left out started later    *)
(* than a returned one.                                                       *)
C7_GetWorkoutsExactAndLimited ==
    resp.op = "getWorkouts" =>
        LET owned == OwnedRows(resp.userId)
            list == resp.value
            limit == resp.args.limit
        IN  /\ \A i \in DOMAIN list : RowOf(list[i]) \in owned
            /\ Cardinality(IdsIn(list)) = Len(list)
            /\ IF limit = Undefined
               THEN IdsIn(list) = {w.id : w \in owned}
               ELSE /\ Len(list) = IF limit.val < Cardinality(owned)
                                   THEN limit.val ELSE Cardinality(owned)
                    /\ \A w \in owned :
                          w.id \notin IdsIn(list) =>
                              \A i \in DOMAIN list :
                                  w.startedAt.ms <= list[i].startedAt.ms

\* With limit 1 the user is given the later of two workouts; the earlier one,
\* first in the heap, is left out.
C7_Witness ==
    /\ resp.op = "getWorkouts"
    /\ resp.args.limit = Num(1)
    /\ Len(resp.value) = 1
    /\ \E w \in OwnedRows(resp.userId) :
            /\ w.startedAt.ms < resp.value[1].startedAt.ms
            /\ workouts[1] = w

----------------------------------------------------------------------------
----------------------------------------------------------------------------
(* C9: freshness.  A query of user U that runs after U's createWorkout or     *)
(* updateWorkout committed, with no other committed mutation in between,      *)
(* shows the workout as that mutation left it: getWorkout returns the         *)
(* committed row, an unlimited getWorkouts holds it, the list of the day it   *)
(* starts holds it, and no list holds an older version of it.                 *)
ShowsCommitted(w, r) ==
    /\ (r.op = "getWorkout" /\ r.args.workoutId = w.id) =>
            r.value # Undefined /\ RowOf(r.value) = w
    /\ r.op \in {"getWorkouts", "getWorkoutsForDate"} =>
            \A i \in DOMAIN r.value : r.value[i].id = w.id => RowOf(r.value[i]) = w
    /\ (r.op = "getWorkouts" /\ r.args.limit = Undefined) => w.id \in IdsIn(r.value)
    /\ (r.op = "getWorkoutsForDate" /\ w.startedAt.ms = StartOfDay(r.args.date)) =>
            w.id \in IdsIn(r.value)

----------------------------------------------------------------------------
(* C10: createWorkoutAction called with a valid input by an authenticated     *)
(* user U succeeds and adds exactly one workout: a new id, owner U, startedAt *)
(* and notes as in the input, completedAt and duration empty, no              *)
(* workout_exercises row; all other stored rows stay.  The returned workout   *)
(* is the stored one, and getWorkout(returned.id, U) right after returns it   *)
(* with an empty exercise list.                                               *)
CreatedAsAsked(w, caller, input) ==
    /\ w.userId = caller
    /\ IsoString(w.startedAt.ms) = input.startedAt.val
    /\ w.notes = IF input.notes = Undefined THEN Null ELSE input.notes
    /\ w.completedAt = Null
    /\ w.duration = Null

C10_CreateAddsOneWorkout ==
    [][(/\ resp'.op = "createWorkoutAction"
        /\ resp'.userId \in Users
        /\ createWorkoutSchema(resp'.args))
          => LET w == resp'.value
             IN  /\ resp'.status = "ok"
                 /\ CreatedAsAsked(w, resp'.userId, resp'.args)
                 /\ \A old \in Rows(workouts) : old.id # w.id
                 /\ Len(workouts') = Len(workouts) + 1
                 /\ Rows(workouts') = Rows(workouts) \cup {w}
                 /\ workoutExercises' = workoutExercises /\ sets' = sets
                 /\ \A we \in Rows(workoutExercises') : we.workoutId # w.id
                 /\ \A id \in WorkoutIds, u \in Users :
                        (id = w.id /\ u = resp'.userId) =>
                            /\ getWorkout(id, u)' # Undefined
                            /\ RowOf(getWorkout(id, u)') = w
                            /\ getWorkout(id, u)'.workoutExercises = <<>>]_vars

\* A second workout, with notes, was created while the first one already has an
\* exercise; the new row went in front of the old one in the heap.
C10_Witness ==
    /\ resp.op = "createWorkoutAction"
    /\ resp.status = "ok"
    /\ resp.args.notes = Str("leg day")
    /\ Len(workouts) = 2
    /\ workouts[1] = resp.value
    /\ workoutExercises # <<>>

----------------------------------------------------------------------------
(* C11: createWorkoutAction called by a signed-in user with an input whose    *)
(* startedAt is missing or is not the text of a timestamp, or whose notes are *)
(* longer than 1000 characters, throws the validation error; the data helper  *)
(* is not reached: no row is stored and no identity value is consumed.        *)
NotATimestamp(v) ==
    \/ v = Undefined
    \/ v.tag = "string" /\ \A t \in DOMAIN IsoTexts : v.val # IsoString(t)

TooLong(v) == v.tag = "string" /\ Len(v.val) > MaxNotesLen

C11_CreateRejectsInvalidInput ==
    [][(/\ resp'.op = "createWorkoutAction"
        /\ resp'.userId \in Users
        /\ NotATimestamp(resp'.args.startedAt) \/ TooLong(resp'.args.notes))
          => /\ resp'.status = "error"
             /\ resp'.value = Str("ZodError")
             /\ store' = store
             /\ createdBy' = createdBy]_vars

\* Notes of 1001 characters were turned away while a workout is stored.
C11_Witness ==
    /\ resp.op = "createWorkoutAction"
    /\ resp.userId \in Users
    /\ resp.status = "error"
    /\ TooLong(resp.args.notes)
    /\ ~NotATimestamp(resp.args.startedAt)
    /\ Len(workouts) = 1

----------------------------------------------------------------------------
(* C12: partial update.  A successful updateWorkoutAction leaves every column *)
(* of the workout that the input does not supply as it was, owner and id      *)
(* included; an input with notes only changes the notes and nothing else; no  *)
(* other workout and no exercise or set row changes.                          *)
DataColumns == {"startedAt", "completedAt", "duration", "notes"}

----------------------------------------------------------------------------
(* C13: updateWorkoutAction on an id that names no workout, or a workout of   *)
(* another user, never succeeds: a valid input gets the not-found error, and  *)
(* every stored row, the targeted one included, is as it was.                 *)
NotFoundError == Str("Workout not found or you don't have permission to update it")

C13_UpdateNotFound ==
    [][(/\ resp'.op = "updateWorkoutAction"
        /\ resp'.userId \in Users
        /\ resp'.args.id.tag = "number"
        /\ \A w \in Rows(workouts) :
                ~(w.id = resp'.args.id.val /\ w.userId = resp'.userId))
          => /\ resp'.status = "error"
             /\ updateWorkoutSchema(resp'.args) => resp'.value = NotFoundError
             /\ resp'.revalidated = {}
             /\ store' = store]_vars

\* A user's notes for a workout of another user were turned away as not found.
C13_Witness ==
    /\ resp.op = "updateWorkoutAction"
    /\ resp.status = "error"
    /\ resp.value = NotFoundError
    /\ resp.args.notes = Str("felt strong")
    /\ \E w \in Rows(workouts) :
            /\ w.id = resp.args.id.val
            /\ w.userId # resp.userId
            /\ w.notes = Null

\* The same error for an id that names no workout, while the caller owns one.
C13_WitnessAbsent ==
    /\ resp.op = "updateWorkoutAction"
    /\ resp.value = NotFoundError
    /\ \A w \in Rows(workouts) : w.id # resp.args.id.val
    /\ \E w \in Rows(workouts) : w.userId = resp.userId

----------------------------------------------------------------------------
(* C14: existence hiding.  What a user observes from getWorkout(id, U) and    *)
(* from updateWorkoutAction with that id is fixed by the call alone whenever  *)
(* U owns no workout with the id: the outcome is the same whether the id      *)
(* names nothing or a workout of another user.                                *)
TargetId(r) == IF r.op = "getWorkout" THEN r.args.workoutId ELSE r.args.id.val

\* The outcome of a call that finds nothing, told from the call's arguments.
HiddenOutcome(r) ==
    IF r.op = "getWorkout"
    THEN [status |-> "ok", value |-> Undefined, revalidated |-> {}]
    ELSE [status |-> "error",
          value |-> IF updateWorkoutSchema(r.args)
                    THEN NotFoundError ELSE Str("ZodError"),
          revalidated |-> {}]

C14_ExistenceHidden ==
    (/\ resp.op \in {"getWorkout", "updateWorkoutAction"}
     /\ resp.userId \in Users
     /\ \A w \in OwnedRows(resp.userId) : w.id # TargetId(resp))
        => [status |-> resp.status, value |-> resp.value,
            revalidated |-> resp.revalidated] = HiddenOutcome(resp)

\* getWorkout for a workout of another user returned the not-found result.
C14_Witness ==
    /\ resp.op = "getWorkout"
    /\ resp.value = Undefined
    /\ \E w \in Rows(workouts) : w.id = TargetId(resp) /\ w.userId # resp.userId

\* getWorkout for an id that names no workout returned the same.
C14_WitnessAbsent ==
    /\ resp.op = "getWorkout"
    /\ resp.value = Undefined
    /\ workouts # <<>>
    /\ \A w \in Rows(workouts) : w.id # TargetId(resp)

----------------------------------------------------------------------------
(* C15: updateWorkoutAction called by a signed-in user with a duration that   *)
(* is a number but not a positive one, with notes longer than 1000            *)
(* characters, or with a startedAt or completedAt that is given and is not    *)
(* the text of a timestamp throws the validation error, whatever the workout  *)
(* id names; the data helper is not reached and no stored row changes.        *)
GivenNotATimestamp(v) == v # Undefined /\ NotATimestamp(v)

InvalidEdit(input) ==
    \/ input.duration.tag = "number" /\ input.duration.val <= 0
    \/ TooLong(input.notes)
    \/ input.startedAt # Undefined /\ input.startedAt.tag # "string"
    \/ GivenNotATimestamp(input.startedAt)
    \/ GivenNotATimestamp(input.completedAt)

C15_UpdateRejectsInvalidInput ==
    [][(/\ resp'.op = "updateWorkoutAction"
        /\ resp'.userId \in Users
        /\ InvalidEdit(resp'.args))
          => /\ resp'.status = "error"
             /\ resp'.value = Str("ZodError")
             /\ resp'.revalidated = {}
             /\ store' = store]_vars

\* A duration of 0 for a workout of the caller that has no duration yet.
C15_Witness ==
    /\ resp.op = "updateWorkoutAction"
    /\ resp.value = Str("ZodError")
    /\ resp.args.duration = Num(0)
    /\ \E w \in OwnedRows(resp.userId) :
            w.id = resp.args.id.val /\ w.duration = Null

----------------------------------------------------------------------------
(* C16: session consistency.  After any sequence of creations and updates,    *)
(* every stored workout that has a completedAt has completedAt >= startedAt:  *)
(* an update that would leave completedAt before startedAt is rejected.       *)
C16_SessionConsistent ==
    \A w \in Rows(workouts) :
        w.completedAt # Null => w.completedAt.ms >= w.startedAt.ms

----------------------------------------------------------------------------
(* C17: updateWorkout checks the owner and writes in one atomic step.  With   *)
(* runs of updateWorkoutAction interleaved in every way, no run that still    *)
(* awaits its write holds the result of an ownership read; the step that      *)
(* writes is the step that matches on id and owner, and it writes exactly     *)
(* when a row of the caller matches at that moment; no row changes except by  *)
(* the write of a run of the row's owner.                                     *)
Writes(slot) == calls[slot].pc = "awaitUpdate" /\ calls'[slot].pc = "returned"

C17_AtomicConditionalUpdate ==
    [][/\ \A slot \in Slots :
            calls'[slot].pc = "awaitUpdate" => calls'[slot].seen = Undefined
       /\ \A slot \in Slots :
            Writes(slot) =>
                LET owned == {w \in Rows(workouts) :
                                w.id = calls[slot].id /\ w.userId = calls[slot].caller}
                IN  /\ (calls'[slot].updated = <<>>) = (owned = {})
                    /\ owned = {} => workouts' = workouts
                    /\ owned # {} => calls'[slot].updated[1] \in Rows(workouts')
       /\ \A old \in Rows(workouts) :
            old \notin Rows(workouts') =>
                \E slot \in Slots :
                    /\ Writes(slot)
                    /\ calls[slot].caller = old.userId
                    /\ calls[slot].id = old.id]_vars

\* The other user's run has come back from its UPDATE with no row, the owner's
\* run awaits its own UPDATE, and the workout is as the owner created it.
C17_Witness ==
    \E a, b \in Slots :
        /\ calls[a].pc = "returned"
        /\ calls[a].caller = "u2"
        /\ calls[a].updated = <<>>
        /\ calls[b].pc = "awaitUpdate"
        /\ calls[b].caller = "u1"
        /\ \E w \in Rows(workouts) :
                w.id = calls[a].id /\ w.startedAt = DateOf(TicksPerDay)

----------------------------------------------------------------------------
(* C18: last write wins.  When two runs of updateWorkoutAction of one user    *)
(* for one workout of theirs are in flight together and both have come back   *)
(* from the database, where each found the workout, both have succeeded (none *)
(* is turned away for a conflict) and, unless a further run has written the   *)
(* workout since, the stored workout is the one the run that wrote second     *)
(* returned: every column that run supplies holds its value.  When nothing    *)
(* else wrote in between either, the stored workout is what                   *)
(* applying the two inputs in the order of the writes to the workout as it    *)
(* was gives: a column only the first supplies holds the first's value, a     *)
(* column neither supplies is as it was.                                      *)
AppliedInOrder(first, second, stored) ==
    LET base == first.before[1]
    IN  /\ stored.id = base.id
        /\ stored.userId = base.userId
        /\ \A c \in DataColumns :
                stored[c] = IF second.data[c] # Undefined THEN second.data[c]
                            ELSE IF first.data[c] # Undefined THEN first.data[c]
                            ELSE base[c]

C18_LastWriteWins ==
    \A a, b \in Slots :
        (/\ calls[a].pc = "returned" /\ calls[b].pc = "returned"
         /\ a \in calls[b].after
         /\ calls[a].caller = calls[b].caller
         /\ calls[a].id = calls[b].id
         /\ calls[a].before # <<>> /\ calls[b].before # <<>>)
            => /\ calls[a].updated # <<>>
               /\ calls[b].updated # <<>>
               /\ calls[b].latest =>
                  \E w \in OwnedRows(calls[b].caller) :
                    /\ w.id = calls[b].id
                    /\ w = calls[b].updated[1]
                    /\ \A c \in DataColumns :
                            calls[b].data[c] # Undefined => w[c] = calls[b].data[c]
                    /\ calls[b].before = calls[a].updated =>
                            AppliedInOrder(calls[a], calls[b], w)

\* Two runs of the owner wrote different starts; the one that wrote second also
\* left the notes of the first in place.
C18_Witness ==
    \E a, b \in Slots :
        /\ a # b
        /\ calls[a].pc = "returned" /\ calls[b].pc = "returned"
        /\ calls[a].caller = "u1" /\ calls[b].caller = "u1"
        /\ calls[a].data.startedAt = DateOf(TicksPerDay - 1)
        /\ calls[b].data.startedAt = DateOf(TicksPerDay + 1)
        /\ a \in calls[b].after
        /\ calls[b].before = calls[a].updated
        /\ \E w \in Rows(workouts) :
                /\ w.startedAt = DateOf(TicksPerDay + 1)
                /\ w.notes = Str("felt strong")

----------------------------------------------------------------------------
\* The workouts the rendered list resp was given: the store does not change
\* between the rendering and the next operation.
Listed == getWorkoutsForDate(resp.userId, resp.args.date)

\* The places of the sets in a loaded workout: <<j, k>> is the k-th set of the
\* j-th exercise.
SetPlaces(workout) ==
    UNION {{<<j, k>> : k \in DOMAIN workout.workoutExercises[j].sets} :
                j \in DOMAIN workout.workoutExercises}

(* C19: aggregator counts.  Whenever the workout list is rendered, it renders *)
(* without an error one card for each loaded workout, and the card's          *)
(* totalExercises is the number of the workout's exercises and its totalSets  *)
(* the number of all sets of all its exercises, warmup sets included; a       *)
(* workout without exercises has totalExercises = 0 and totalSets = 0.        *)
C19_AggregatorCounts ==
    resp.op = "WorkoutList" =>
        /\ resp.status = "ok"
        /\ DOMAIN resp.value = DOMAIN Listed
        /\ \A i \in DOMAIN Listed :
                /\ resp.value[i].key = Listed[i].id
                /\ resp.value[i].totalExercises
                        = Cardinality(DOMAIN Listed[i].workoutExercises)
                /\ resp.value[i].totalSets = Cardinality(SetPlaces(Listed[i]))
                /\ Listed[i].workoutExercises = <<>> =>
                        /\ resp.value[i].totalExercises = 0
                        /\ resp.value[i].totalSets = 0

\* A workout with two exercises, one warmup set and one working set, was
\* rendered with 2 exercises and 2 sets.
C19_Witness ==
    /\ resp.op = "WorkoutList"
    /\ \E i \in DOMAIN resp.value :
            /\ resp.value[i].totalExercises = 2
            /\ resp.value[i].totalSets = 2
    /\ \E s, t \in Rows(sets) : s.isWarmup /\ ~t.isWarmup

\* A workout without exercises was rendered with 0 exercises and 0 sets.
C19_WitnessEmpty ==
    /\ resp.op = "WorkoutList"
    /\ \E i \in DOMAIN resp.value :
            /\ Listed[i].workoutExercises = <<>>
            /\ resp.value[i].totalExercises = 0
            /\ resp.value[i].totalSets = 0

(* C20: aggregator, all-warmup exercise.  Whenever the workout list is        *)
(* rendered, it renders without an error, and the row of an exercise whose    *)
(* sets are all warmup sets has no working set and reads the number of all    *)
(* its sets followed by `set` or `sets` and nothing more: no reps, no weight; *)
(* when it is the workout's only exercise, the card's totalSets is that       *)
(* number too.                                                                *)
AllWarmup(workoutExercise) ==
    \A k \in DOMAIN workoutExercise.sets : workoutExercise.sets[k].isWarmup

C20_AllWarmupExercise ==
    resp.op = "WorkoutList" =>
        /\ resp.status = "ok"
        /\ \A i \in DOMAIN Listed :
            \A j \in DOMAIN Listed[i].workoutExercises :
                LET workoutExercise == Listed[i].workoutExercises[j]
                    length == Len(workoutExercise.sets)
                IN  AllWarmup(workoutExercise) =>
                        /\ Len(workingSets(workoutExercise)) = 0
                        /\ resp.value[i].lines[j].text
                                = <<Num(length), Str(" set"), Str(Plural(length))>>
                        /\ Len(Listed[i].workoutExercises) = 1 =>
                                resp.value[i].totalSets = length

\* A workout whose one exercise has two warmup sets and no other set was
\* rendered with 2 sets in all and the row `2 sets`.
C20_Witness ==
    /\ resp.op = "WorkoutList"
    /\ \E i \in DOMAIN Listed :
        \E j \in DOMAIN Listed[i].workoutExercises :
            /\ Len(Listed[i].workoutExercises[j].sets) = 2
            /\ AllWarmup(Listed[i].workoutExercises[j])
            /\ Len(Listed[i].workoutExercises) = 1
            /\ resp.value[i].totalSets = 2
            /\ resp.value[i].lines[j].text = <<Num(2), Str(" set"), Str("s")>>

(* C21: aggregator display line.  Whenever the workout list is rendered, the  *)
(* row of an exercise with at least one working set reads the number of all   *)
(* its sets, then the reps of exactly its working sets in setNumber order,    *)
(* then the weight of its first working set as `@ <weight> lbs`, whatever     *)
(* non-negative weight that set has; warmup sets add neither reps nor weight. *)
RECURSIVE RepsText(_)
RepsText(working) ==
    IF working = <<>> THEN ""
    ELSE IF Len(working) = 1 THEN ToString(working[1].reps)
    ELSE ToString(working[1].reps) \o ", " \o RepsText(Tail(working))

\* The row the claim describes for a loaded exercise with a working set.
DisplayLine(workoutExercise) ==
    LET length == Len(workoutExercise.sets)
        working == SelectSeq(workoutExercise.sets, LAMBDA set : ~set.isWarmup)
    IN  <<Num(length), Str(" set"), Str(Plural(length)),
          Str(" x "), Str(RepsText(working)), Str(" reps"),
          Str(" @ "), Num(working[1].weight), Str(" lbs")>>

HasWorkingSet(workoutExercise) ==
    \E k \in DOMAIN workoutExercise.sets : ~workoutExercise.sets[k].isWarmup

C21_DisplayLine ==
    resp.op = "WorkoutList" =>
        \A i \in DOMAIN Listed :
            \A j \in DOMAIN Listed[i].workoutExercises :
                HasWorkingSet(Listed[i].workoutExercises[j]) =>
                    resp.value[i].lines[j].text
                        = DisplayLine(Listed[i].workoutExercises[j])

\* The same for the exercises whose first working set has a weight other than 0:
\* this part of the claim holds.
C21_DisplayLineOfNonZeroWeight ==
    resp.op = "WorkoutList" =>
        \A i \in DOMAIN Listed :
            \A j \in DOMAIN Listed[i].workoutExercises :
                LET workoutExercise == Listed[i].workoutExercises[j]
                IN  (/\ HasWorkingSet(workoutExercise)
                     /\ workingSets(workoutExercise)[1].weight # 0) =>
                        resp.value[i].lines[j].text = DisplayLine(workoutExercise)

(* C22: end to end.  When the store holds nothing but one workout that u1     *)
(* created with a start in the morning of a day and no notes, the workouts of *)
(* that day queried for u1 are exactly that workout, with no exercises, and   *)
(* its card in the list has totalExercises = 0 and totalSets = 0; the same    *)
(* query and the same list for another user are empty.                        *)
OnlyTheMorningWorkout ==
    /\ Len(workouts) = 1
    /\ workouts[1].userId = "u1"
    /\ createdBy[workouts[1].id] = "u1"
    /\ workouts[1].startedAt = DateOf(MorningOfDay)
    /\ workouts[1].notes = Null
    /\ workoutExercises = <<>>
    /\ sets = <<>>

C22_EndToEnd ==
    (/\ OnlyTheMorningWorkout
     /\ resp.status = "ok"
     /\ resp.op \in {"getWorkoutsForDate", "WorkoutList"}
     /\ resp.args.date \in DayInstants)
        => IF resp.userId # "u1" THEN resp.value = <<>>
           ELSE /\ Len(resp.value) = 1
                /\ resp.op = "getWorkoutsForDate" =>
                        /\ resp.value[1].id = workouts[1].id
                        /\ resp.value[1].userId = "u1"
                        /\ resp.value[1].startedAt = DateOf(MorningOfDay)
                        /\ resp.value[1].workoutExercises = <<>>
                /\ resp.op = "WorkoutList" =>
                        /\ resp.value[1].key = workouts[1].id
                        /\ resp.value[1].totalExercises = 0
                        /\ resp.value[1].totalSets = 0
                        /\ resp.value[1].lines = <<>>

\* The one workout of u1 was listed for u1 with zero exercises and zero sets.
C22_Witness ==
    /\ OnlyTheMorningWorkout
    /\ resp.op = "WorkoutList" /\ resp.userId = "u1"
    /\ Len(resp.value) = 1
    /\ resp.value[1].totalSets = 0

\* The same day queried for the other user gave an empty list.
C22_WitnessOther ==
    /\ OnlyTheMorningWorkout
    /\ resp.op = "getWorkoutsForDate" /\ resp.userId = "u2"
    /\ resp.value = <<>>

\* The one workout of u1 was returned to u1 by the query.
C22_WitnessQuery ==
    /\ OnlyTheMorningWorkout
    /\ resp.op = "getWorkoutsForDate" /\ resp.userId = "u1"
    /\ Len(resp.value) = 1

(* C23: referential integrity under deletion.  After every operation, every   *)
(* workout_exercises row references a stored workout and a stored exercise    *)
(* and every sets row references a stored workout_exercises row.  Deleting a  *)
(* workout removes the workout, all its workout_exercises rows and all their  *)
(* sets rows and nothing else; deleting an exercise that a workout_exercises  *)
(* row references is rejected and leaves the store as it was.                 *)
ReferencesResolve ==
    /\ \A we \in Rows(workoutExercises) :
            /\ \E w \in Rows(workouts) : w.id = we.workoutId
            /\ \E e \in Rows(exercises) : e.id = we.exerciseId
    /\ \A s \in Rows(sets) :
            \E we \in Rows(workoutExercises) : we.id = s.workoutExerciseId

\* The workout_exercises rows and the sets rows under the workout id.
ExercisesUnder(id) == {we \in Rows(workoutExercises) : we.workoutId = id}
SetsUnder(id) ==
    {s \in Rows(sets) : \E we \in ExercisesUnder(id) : we.id = s.workoutExerciseId}

C23_ReferentialIntegrity ==
    [][/\ ReferencesResolve'
       /\ \A id \in WorkoutIds :
            (/\ resp'.op = "deleteWorkout" /\ resp'.args.workoutId = id
             /\ \E w \in Rows(workouts) : w.id = id)
                => /\ Rows(workouts') = {w \in Rows(workouts) : w.id # id}
                   /\ Rows(workoutExercises') = Rows(workoutExercises) \ ExercisesUnder(id)
                   /\ Rows(sets') = Rows(sets) \ SetsUnder(id)
                   /\ exercises' = exercises
       /\ \A id \in ExerciseIds :
            (/\ resp'.op = "deleteExercise" /\ resp'.args.exerciseId = id
             /\ \E we \in Rows(workoutExercises) : we.exerciseId = id)
                => /\ resp'.status = "error"
                   /\ store' = store]_vars

\* A workout with an exercise and a set has been deleted: the three tables are
\* empty.
C23_Witness ==
    /\ resp.op = "deleteWorkout" /\ resp.value # <<>>
    /\ identity.workoutExercises > 0 /\ identity.sets > 0
    /\ workouts = <<>> /\ workoutExercises = <<>> /\ sets = <<>>

\* The deletion of an exercise that a workout uses has been rejected.
C23_WitnessRestrict ==
    /\ resp.op = "deleteExercise" /\ resp.status = "error"
    /\ \E we \in Rows(workoutExercises) : we.exerciseId = resp.args.exerciseId
    /\ \E e \in Rows(exercises) : e.id = resp.args.exerciseId

(* C24: sequence-index uniqueness.  In every reachable state no two           *)
(* workout_exercises rows of one workout have the same order and no two sets  *)
(* rows of one workout_exercises row have the same setNumber: the store       *)
(* rejects the insert that would make a duplicate.                            *)
C24_SequenceIndexUnique ==
    /\ \A a, b \in Rows(workoutExercises) :
            (a.workoutId = b.workoutId /\ a.order = b.order) => a.id = b.id
    /\ \A s, t \in Rows(sets) :
            (s.workoutExerciseId = t.workoutExerciseId /\ s.setNumber = t.setNumber)
                => s.id = t.id

(* C25: frame on the nested rows.  No run of createWorkoutAction or           *)
(* updateWorkoutAction, whether it succeeds, is rejected by validation, is    *)
(* unauthorized or finds no workout, creates, reorders or deletes a           *)
(* workout_exercises or sets row: both tables, and the exercises and sets     *)
(* loaded for every workout, are after the run as they were before it.        *)
MutationOps == {"createWorkoutAction", "updateWorkoutAction"}

C25_MutationsLeaveChildren ==
    [][resp'.op \in MutationOps =>
            /\ workoutExercises' = workoutExercises
            /\ sets' = sets
            /\ \A w \in Rows(workouts) :
                    WithWorkoutExercises(w)' = WithWorkoutExercises(w)]_vars

\* An update of a workout that has an exercise with a set succeeded.
C25_Witness ==
    /\ resp.op = "updateWorkoutAction" /\ resp.status = "ok"
    /\ \E we \in Rows(workoutExercises) :
            /\ we.workoutId = resp.value.id
            /\ \E s \in Rows(sets) : s.workoutExerciseId = we.id

\* An update next to exercises and sets was rejected by validation; a creation
\* next to them succeeded.
C25_WitnessRejected ==
    /\ resp.op = "updateWorkoutAction" /\ resp.value = Str("ZodError")
    /\ sets # <<>>

C25_WitnessCreate ==
    /\ resp.op = "createWorkoutAction" /\ resp.status = "ok"
    /\ sets # <<>>

(* C26: a storage failure is never reported as an empty result.  A query that *)
(* ran while the database failed ended in an error, which is neither a list   *)
(* nor the not-found answer; a query that answered with the empty list did so *)
(* in a store where no row meets its condition, and getWorkout answered       *)
(* not-found in a store that has no workout of that id and owner.             *)
StorageFailure == Str("storage failure")

\* The stored rows the condition of the query resp selects (for the last
\* instant of a day see C3).
Selected ==
    IF resp.op = "getWorkoutsForDate"
    THEN {w \in OwnedRows(resp.userId) :
            /\ StartOfDay(resp.args.date) <= w.startedAt.ms
            /\ w.startedAt.ms < EndOfDay(resp.args.date)}
    ELSE IF resp.op = "getWorkout"
    THEN {w \in OwnedRows(resp.userId) : w.id = resp.args.workoutId}
    ELSE OwnedRows(resp.userId)

C26_FailureIsNotEmpty ==
    resp.op \in QueryOps =>
        /\ resp.status = "error" => resp.value = StorageFailure
        /\ resp.status = "ok" =>
                IF resp.op = "getWorkout"
                THEN resp.value = Undefined => Selected = {}
                ELSE resp.value = <<>> => Selected = {}

\* A query of the workouts of a day failed while the store held a workout of
\* the user on that day: the outcome is the error.
C26_Witness ==
    /\ resp.op = "getWorkoutsForDate"
    /\ resp.status = "error" /\ resp.value = StorageFailure
    /\ Selected # {}

\* A query answered the empty list in a store without a matching row.
C26_WitnessEmpty ==
    /\ resp.op = "getWorkouts" /\ resp.status = "ok" /\ resp.value = <<>>
    /\ workouts # <<>>

(* C27: server action step order.  In every run of createWorkoutAction and    *)
(* updateWorkoutAction the data helper is called, and the store written, only *)
(* after auth returned a user id and the input parsed; the paths are          *)
(* revalidated and success returned only after the helper returned a workout; *)
(* a run without a user ends in Unauthorized having neither parsed the input  *)
(* nor called the helper; a run that ends in an error has revalidated         *)
(* nothing.                                                                   *)
RunInOrder(run) ==
    /\ run.pc = "helper" =>
            /\ run.log = <<"auth", "parse">>
            /\ run.caller \in Users
            /\ Parses(run.action, run.input)
    /\ run.pc = "revalidate" =>
            /\ run.log = <<"auth", "parse", "helper">>
            /\ run.workout # Undefined
            /\ run.revalidated = {}
    /\ run.pc = "return" =>
            /\ run.log = <<"auth", "parse", "helper", "revalidate">>
            /\ run.workout # Undefined
            /\ run.revalidated # {}
    /\ run.pc = "thrown" =>
            /\ run.revalidated = {}
            /\ run.log \in {<<"auth">>, <<"auth", "parse">>,
                            <<"auth", "parse", "helper">>}
            /\ run.caller = Anonymous <=> run.error = Str("Unauthorized")
            /\ run.error = Str("Unauthorized") <=> run.log = <<"auth">>
            /\ run.error = Str("ZodError") <=> run.log = <<"auth", "parse">>

SettledInOrder ==
    resp.op \in ServerActions =>
        IF resp.status = "ok"
        THEN /\ resp.log = <<"auth", "parse", "helper", "revalidate">>
             /\ resp.value # Undefined
             /\ resp.revalidated # {}
             /\ resp.userId \in Users
        ELSE /\ resp.revalidated = {}
             /\ resp.userId = Anonymous <=> resp.value = Str("Unauthorized")
             /\ resp.value = Str("Unauthorized") <=> resp.log = <<"auth">>
             /\ resp.value = Str("ZodError") <=> resp.log = <<"auth", "parse">>
             /\ resp.log \in {<<"auth">>, <<"auth", "parse">>,
                              <<"auth", "parse", "helper">>}

C27_StepOrder ==
    [][/\ \A slot \in Slots : calls'[slot] # Idle => RunInOrder(calls'[slot])
       /\ SettledInOrder'
       /\ store' # store =>
            \E slot \in Slots :
                /\ calls[slot].pc = "helper"
                /\ calls[slot].log = <<"auth", "parse">>
                /\ calls[slot].caller \in Users
                /\ Parses(calls[slot].action, calls[slot].input)
                /\ calls'[slot].log = <<"auth", "parse", "helper">>]_vars

\* A run of updateWorkoutAction went through all its statements and returned.
C27_Witness ==
    /\ resp.op = "updateWorkoutAction" /\ resp.status = "ok"
    /\ resp.log = <<"auth", "parse", "helper", "revalidate">>
    /\ resp.revalidated = {"/dashboard", WorkoutPath(1)}

\* A run without a session ended after auth; a run found no workout and ended
\* after the helper.
C27_WitnessUnauthorized ==
    /\ resp.op = "createWorkoutAction" /\ resp.value = Str("Unauthorized")
    /\ resp.log = <<"auth">>

C27_WitnessNotFound ==
    /\ resp.op = "updateWorkoutAction" /\ resp.status = "error"
    /\ resp.log = <<"auth", "parse", "helper">>

(* C28: null as omitted.  A run of updateWorkoutAction that succeeds with an  *)
(* input carrying null for completedAt, duration or notes leaves the stored   *)
(* value of that column as it was, and writes what the same input without the *)
(* field would write; so the edit form's submission with empty notes          *)
(* (notes = null) keeps the stored notes.                                     *)
NullableColumns == {"completedAt", "duration", "notes"}

C28_NullAsOmitted ==
    [][(resp'.op = "updateWorkoutAction" /\ resp'.status = "ok")
          => \A c \in NullableColumns :
                resp'.args[c] = Null =>
                    /\ \E old \in Rows(workouts) :
                            /\ old.id = resp'.args.id.val
                            /\ resp'.value[c] = old[c]
                            /\ resp'.value \in Rows(workouts')
                            /\ <<resp'.value>> = updateWorkout(old.id, old.userId,
                                    UpdateData([resp'.args EXCEPT ![c] = Undefined]))]_vars

\* The edit form was submitted with a start and empty notes for a workout that
\* has notes: the notes are still stored.
C28_Witness ==
    /\ resp.op = "updateWorkoutAction" /\ resp.status = "ok"
    /\ resp.args.notes = Null
    /\ resp.args.startedAt # Undefined
    /\ resp.value.notes = Str("felt strong")
    /\ resp.value \in Rows(workouts)

\* Null for the duration and for the completion time of a workout that has
\* both left them stored.
C28_WitnessDuration ==
    /\ resp.op = "updateWorkoutAction" /\ resp.status = "ok"
    /\ resp.args.duration = Null
    /\ resp.value.duration = Num(60)

C28_WitnessCompletedAt ==
    /\ resp.op = "updateWorkoutAction" /\ resp.status = "ok"
    /\ resp.args.completedAt = Null
    /\ resp.value.completedAt # Null

(* C29: workout ownership is immutable.  No run of updateWorkoutAction,       *)
(* whatever its input and whoever calls it, changes the userId or the id of a *)
(* workout: every workout stored before a step is stored after it with the    *)
(* same id and owner; after any sequence of creations and updates the owner   *)
(* of every workout is the user whose action created it, and the ids of the   *)
(* workouts are pairwise distinct.                                            *)
OwnersAsCreated ==
    /\ \A w \in Rows(workouts) : w.userId = createdBy[w.id]
    /\ \A i, j \in DOMAIN workouts : workouts[i].id = workouts[j].id => i = j

C29_OwnershipImmutable ==
    [][/\ OwnersAsCreated'
       /\ \A w \in Rows(workouts) :
            \E v \in Rows(workouts') : v.id = w.id /\ v.userId = w.userId
       /\ Len(workouts') >= Len(workouts)
       /\ resp'.op = "updateWorkoutAction" =>
            {<<w.id, w.userId>> : w \in Rows(workouts')}
                = {<<w.id, w.userId>> : w \in Rows(workouts)}]_vars

\* The owner updated a workout with an input that names the other user as
\* userId: the update succeeded and the workout is still the owner's.
C29_Witness ==
    /\ resp.op = "updateWorkoutAction" /\ resp.status = "ok"
    /\ resp.userId = "u1"
    /\ "userId" \in DOMAIN resp.args
    /\ resp.args.userId = Str("u2")
    /\ resp.value.userId = "u1"
    /\ resp.value.startedAt = DateOf(TicksPerDay + 1)
    /\ resp.value \in Rows(workouts)

\* The other user sent an update for the workout naming themselves: not found,
\* and the workout is the owner's.
C29_WitnessIntruder ==
    /\ resp.op = "updateWorkoutAction" /\ resp.status = "error"
    /\ resp.userId = "u2"
    /\ "userId" \in DOMAIN resp.args
    /\ \E w \in Rows(workouts) : w.id = resp.args.id.val /\ w.userId = "u1"

\* A submission of a form that is under way, and one that is over.
Submitting(slot) == calls[slot].pc \in {"try", "awaitAction", "resumed", "finally"}
Settled(slot) == calls[slot].pc = "settled"

\* What holds of a form in every state: isPending is true while its submission
\* is under way and false once it is over; it has pushed nothing but
\* /dashboard, and that only when the action returned success and nothing was
\* caught.
FormState(slot) ==
    LET call == calls[slot]
    IN  call.pc # "idle" =>
            /\ Submitting(slot) => call.isPending
            /\ Settled(slot) => ~call.isPending
            /\ call.pushed \subseteq {"/dashboard"}
            /\ call.pushed # {} =>
                    /\ call.result # Undefined
                    /\ call.result.status = "ok"
                    /\ call.caught = Undefined
            /\ call.caught # Undefined => call.pushed = {}

\* C30: in WorkoutForm and EditWorkoutForm isPending becomes true when a
\* submission starts and is false again once the submission is over, which it
\* eventually is whether the server action returned success or threw; the form
\* navigates to /dashboard only after the action returned success, never after
\* it threw.
C30_FormSubmissionState ==
    /\ [](\A slot \in Slots : FormState(slot))
    /\ \A slot \in Slots :
            (Submitting(slot) /\ calls[slot].isPending)
                ~> (Settled(slot) /\ ~calls[slot].isPending)

\* A submission of the new-workout form is over after the action returned
\* success: the form navigated and isPending is false.
C30_Witness ==
    \E slot \in Slots :
        /\ Settled(slot)
        /\ calls[slot].form = "WorkoutForm"
        /\ calls[slot].result # Undefined
        /\ calls[slot].result.status = "ok"
        /\ calls[slot].pushed = {"/dashboard"}
        /\ ~calls[slot].isPending

\* A submission of the edit form is over after the action threw: the form did
\* not navigate and isPending is false.
C30_WitnessThrew ==
    \E slot \in Slots :
        /\ Settled(slot)
        /\ calls[slot].form = "EditWorkoutForm"
        /\ calls[slot].result # Undefined
        /\ calls[slot].result.status = "error"
        /\ calls[slot].caught = Str("Unauthorized")
        /\ calls[slot].pushed = {}
        /\ ~calls[slot].isPending

\* A submission is under way with isPending true while the action runs.
C30_WitnessPending ==
    \E slot \in Slots :
        /\ calls[slot].pc = "awaitAction"
        /\ calls[slot].isPending

====
